---- MODULE Spec2Model ----
(***************************************************************************)
(* Change-detection and state-reconciliation engine of Github-Utils:       *)
(* commit filter, news processor, forks processor, parallel orchestrator   *)
(* and the durable state store.                                            *)
(*                                                                         *)
(* Conventions                                                             *)
(*   - a SHA is a sequence of digits; str.startswith is the prefix test;   *)
(*   - Python None, "" and a missing dict key are all the falsy value      *)
(*     None == << >> (every read in the code is dict.get(...) followed by  *)
(*     a truth test or an (in)equality with a non-empty SHA);              *)
(*   - commit lists are oldest-first, as the compare API returns them.     *)
(***************************************************************************)
EXTENDS Integers, Sequences, FiniteSets, TLC

VARIABLES
    \* ---- commit filter harness
    commits,                \* argument `commits`
    last_processed_commit,  \* argument `last_processed_commit`
    filtered,               \* the returned list
    fpc,                    \* "call" before the call, "ret" after it
    \* ---- news processor, one repository, consecutive runs
    nUp,                    \* the upstream repository as the remote API shows it
    nStore,                 \* news_state.json: repository key -> RepositoryState
    nPrev,                  \* nStore as it was before the last run
    nOut,                   \* what the last run did (path, summaries, analyses)
    nQuiet,                 \* the last run completed without failure and nothing
                            \* changed upstream since
    nWasQuiet,              \* nQuiet as it was when the last run started
    nBase,                  \* nUp as the last run that completed without failure
                            \* saw it; None before the first such run
    \* ---- forks processor, one parent repository, consecutive runs
    kUp,                    \* the forks of the parent as the remote API shows them
    kStore,                 \* forks_state.json: repository key -> RepositoryState
    kPrev,                  \* kStore as it was before the last run
    kOut,                   \* what the last run did
    kQuiet,                 \* the last run completed with every summary
                            \* succeeding and nothing changed upstream since
    kWasQuiet,              \* kQuiet as it was when the last run started
    \* ---- one parallel batch: ParallelBaseProcessor.execute
    pCfg,                   \* self.repos and max_workers
    pThreads,               \* thread -> [pc, seen, ok, saves, dumped]; thread 0 is the
                            \* thread that called execute, thread i runs the
                            \* task of the i-th repository
    pState,                 \* self.state
    pRepoLocks,             \* self._repo_locks: entry name -> holders
    pStateLock,             \* self._state_lock: holders
    pDisk,                  \* the state file
    pDirty,                 \* a key was inserted into self.state since the
                            \* state file was last opened for writing
    pOrder,                 \* tasks in the order as_completed yields them
    pCrashed,               \* the process was killed
    \* ---- decision functions of state_manager.py, one call
    dState,                 \* argument `state`
    dBefore,                \* `state` as it was handed to the call
    dArgs,                  \* the other arguments of the call
    dRet,                   \* the returned value
    dpc,                    \* "call" before the call, "ret" after it
    \* ---- the state directory and the commands run over it, one at a time
    sFiles,                 \* file name -> [status, data]
    sRemote,                \* commits on the default branch of the monitored
                            \* repository (and ahead on its fork); 0: the
                            \* repository is not found or not accessible
    sRun,                   \* the command running, or the last one run
    \* ---- one call of a function of the fetcher or of the forks processor
    cArgs,                  \* the arguments and what the remote answers
    cRet,                   \* the returned value, or the exception raised
    cpc,                    \* "call" before the call, "ret" after it
    \* ---- the display queue of one parallel batch
    dSent,                  \* what was put into self._display_queue, in order
    dShown,                 \* the display items the display thread has executed
    dThread,                \* the display thread: "running" or "stopped"
    dDebug                  \* the debug setting of the batch

filterVars == <<commits, last_processed_commit, filtered, fpc>>
newsVars == <<nUp, nStore, nPrev, nOut, nQuiet, nWasQuiet, nBase>>
forksVars == <<kUp, kStore, kPrev, kOut, kQuiet, kWasQuiet>>
parVars == <<pCfg, pThreads, pState, pRepoLocks, pStateLock, pDisk, pDirty, pOrder,
             pCrashed>>
decideVars == <<dState, dBefore, dArgs, dRet, dpc>>
storeVars == <<sFiles, sRemote, sRun>>
callVars == <<cArgs, cRet, cpc>>
dispVars == <<dSent, dShown, dThread, dDebug>>

vars == <<commits, last_processed_commit, filtered, fpc,
          nUp, nStore, nPrev, nOut, nQuiet, nWasQuiet, nBase,
          kUp, kStore, kPrev, kOut, kQuiet, kWasQuiet,
          pCfg, pThreads, pState, pRepoLocks, pStateLock, pDisk, pDirty, pOrder,
          pCrashed,
          dState, dBefore, dArgs, dRet, dpc,
          sFiles, sRemote, sRun,
          cArgs, cRet, cpc,
          dSent, dShown, dThread, dDebug>>

----------------------------------------------------------------------------
(* Generic helpers *)

None == << >>

Min(S) == CHOOSE x \in S : \A y \in S : x <= y

Last(s) == s[Len(s)]

\* s[:n]
Take(s, n) == SubSeq(s, 1, IF n < Len(s) THEN n ELSE Len(s))

\* s[-n:] for n > 0
TakeLast(s, n) == SubSeq(s, (IF Len(s) > n THEN Len(s) - n ELSE 0) + 1, Len(s))

\* str.startswith
StartsWith(s, p) == Len(p) <= Len(s) /\ SubSeq(s, 1, Len(p)) = p

SeqsUpTo(S, n) == UNION {[1..k -> S] : k \in 0..n}

----------------------------------------------------------------------------
(* commit_utils.py *)

\* Mutation of the filter: keeps the anchor commit itself (off by one).
filter_inclusive(cs, last) ==
    IF last = None \/ cs = << >> THEN cs
    ELSE LET hits == {i \in 1..Len(cs) : StartsWith(cs[i].sha, last)}
         IN  IF hits # {} THEN SubSeq(cs, Min(hits), Len(cs)) ELSE cs

\* Mutation of the filter: fail-closed when the anchor is not in the window.
filter_fail_closed(cs, last) ==
    IF last = None \/ cs = << >> THEN cs
    ELSE LET hits == {i \in 1..Len(cs) : StartsWith(cs[i].sha, last)}
         IN  IF hits # {} THEN SubSeq(cs, Min(hits) + 1, Len(cs)) ELSE << >>

filter_commits_since_last_processed(cs, last) ==
    IF last = None \/ cs = << >> THEN cs
    ELSE LET hits == {i \in 1..Len(cs) : StartsWith(cs[i].sha, last)}
         IN  IF hits # {} THEN SubSeq(cs, Min(hits) + 1, Len(cs)) ELSE cs

----------------------------------------------------------------------------
(* Shared value helpers *)

\* dict[k] = v
Put(f, k, v) == [x \in DOMAIN f \cup {k} |-> IF x = k THEN v ELSE f[x]]

\* list.reverse()
Reverse(s) == [i \in 1..Len(s) |-> s[Len(s) + 1 - i]]

\* The elements of a set of numbers in ascending order.
SortedSeq(S) ==
    CHOOSE s \in [1..Cardinality(S) -> S] :
        \A i, j \in 1..Cardinality(S) : i < j => s[i] < s[j]

\* [f(x) for x in s]
RECURSIVE Concat(_)
Concat(ss) == IF ss = << >> THEN << >> ELSE Head(ss) \o Concat(Tail(ss))

\* datetime.now().isoformat(): the model keeps whether a timestamp is set.
Stamp == <<"ts">>

----------------------------------------------------------------------------
(* Configuration (config.txt [settings]); the values of this model's run.  *)

save_state == TRUE          \* save_state
max_commits == 2            \* max_commits
max_branches_per_repo == 1  \* max_branches_per_repo
min_branch_commits == 1     \* min_branch_commits

----------------------------------------------------------------------------
(* state_manager.py *)

\* state.get(repo_key, {}) with every missing key read as None / {}.
EmptyRepoState ==
    [last_check |-> None, last_commit |-> None, last_release |-> None,
     branches |-> << >>, last_branch_check |-> None,
     processed_forks |-> << >>, last_fork_check |-> None]

get_repository_state(state, repo_key) ==
    IF repo_key \in DOMAIN state THEN state[repo_key] ELSE EmptyRepoState

\* branch_states.get(branch_name, {}).get('last_commit')
SavedBranchCommit(state, repo_key, branch_name) ==
    LET bs == get_repository_state(state, repo_key).branches
    IN  IF branch_name \in DOMAIN bs THEN bs[branch_name].last_commit ELSE None

update_basic_repository_state(state, repo_key, cs, releases, latest_sha) ==
    LET cur == get_repository_state(state, repo_key)
        s1  == [cur EXCEPT !.last_check = Stamp]
        s2  == IF cs # << >> THEN [s1 EXCEPT !.last_commit = latest_sha] ELSE s1
        s3  == IF releases # << >>
               THEN [s2 EXCEPT !.last_release = <<releases[1].id>>] ELSE s2
    IN  Put(state, repo_key, s3)

update_branch_state(state, repo_key, branch_name, branch_commits, commits_ahead) ==
    LET cur == get_repository_state(state, repo_key)
        b   == [last_commit |-> IF branch_commits # << >>
                                THEN Last(branch_commits).sha ELSE None,
                commits_ahead |-> commits_ahead,
                last_check |-> Stamp]
    IN  Put(state, repo_key,
            [cur EXCEPT !.branches = Put(cur.branches, branch_name, b),
                        !.last_branch_check = Stamp])

\* Mutation: the oldest candidate commit is compared instead of the latest.
should_process_branch_by_oldest(state, repo_key, branch_name, branch_commits, save_state_enabled) ==
    IF ~save_state_enabled THEN TRUE
    ELSE IF branch_commits = << >> THEN FALSE
    ELSE LET bs == get_repository_state(state, repo_key).branches
         IN  IF branch_name \notin DOMAIN bs THEN TRUE
             ELSE Head(branch_commits).sha # bs[branch_name].last_commit

should_process_branch_by_state(state, repo_key, branch_name, branch_commits, save_state_enabled) ==
    IF ~save_state_enabled THEN TRUE
    ELSE IF branch_commits = << >> THEN FALSE
    ELSE LET bs == get_repository_state(state, repo_key).branches
         IN  IF branch_name \notin DOMAIN bs THEN TRUE
             ELSE Last(branch_commits).sha # bs[branch_name].last_commit

\* Mutation: a listed branch without a stored entry does not count.
needs_repository_processing_known_only(state, repo_key, current_main_sha, current_branch_shas) ==
    LET rs    == get_repository_state(state, repo_key)
        saved == rs.branches
        new_branches ==
            SelectSeq(current_branch_shas, LAMBDA b : b.name \notin DOMAIN saved)
        changed_branches ==
            SelectSeq(current_branch_shas,
                      LAMBDA b : /\ b.name \in DOMAIN saved
                                 /\ saved[b.name].last_commit # b.sha)
    IN  [needs_processing |-> \/ rs.last_commit # current_main_sha
                              \/ changed_branches # << >>,
         new_branches |-> [i \in 1..Len(new_branches) |-> new_branches[i].name],
         changed_branches |-> [i \in 1..Len(changed_branches) |-> changed_branches[i].name]]

\* current_branch_shas is the listing, a sequence of [name, sha] in dict order.
needs_repository_processing(state, repo_key, current_main_sha, current_branch_shas) ==
    LET rs    == get_repository_state(state, repo_key)
        saved == rs.branches
        new_branches ==
            SelectSeq(current_branch_shas, LAMBDA b : b.name \notin DOMAIN saved)
        changed_branches ==
            SelectSeq(current_branch_shas,
                      LAMBDA b : /\ b.name \in DOMAIN saved
                                 /\ saved[b.name].last_commit # b.sha)
    IN  [needs_processing |-> \/ rs.last_commit # current_main_sha
                              \/ new_branches # << >>
                              \/ changed_branches # << >>,
         new_branches |-> [i \in 1..Len(new_branches) |-> new_branches[i].name],
         changed_branches |-> [i \in 1..Len(changed_branches) |-> changed_branches[i].name]]

main_branch_unchanged(state, repo_key, current_main_sha) ==
    get_repository_state(state, repo_key).last_commit = current_main_sha

----------------------------------------------------------------------------
(* github_fetcher.py, as a view of an upstream repository                  *)
(*   up.main      commits of the default branch, oldest first              *)
(*   up.is_fork   the repository is itself a fork; main[1] is then the     *)
(*                parent's head and the rest of main is ahead of it        *)
(*   up.release   id of the newest release, 0 when there is none           *)
(*   up.branches  name -> [ahead, orphan, n]: the commits of a non-default *)
(*                branch that are not on the default branch (all of its    *)
(*                commits when it has no common ancestor), and the number  *)
(*                of commits ever pushed to it                             *)
(* Branch names are numbers, so that sorting by name is sorting numbers;   *)
(* the default branch has the smallest name and the API lists by name.     *)

DefaultBranch == 0

get_default_branch(up) == DefaultBranch

get_current_main_sha(up) == Last(up.main).sha

get_latest_commit_sha(up) == Last(up.main).sha

BranchHead(up, b) ==
    IF b = DefaultBranch THEN Last(up.main).sha
    ELSE IF up.branches[b].ahead # << >> THEN Last(up.branches[b].ahead).sha
    ELSE up.main[1].sha

BranchListing(up) ==
    LET names == SortedSeq({DefaultBranch} \cup DOMAIN up.branches)
    IN  [i \in 1..Len(names) |-> [name |-> names[i], sha |-> BranchHead(up, names[i])]]

\* limit = 0 stands for limit=None
get_repository_branches(up, limit) ==
    IF limit > 0 THEN Take(BranchListing(up), limit) ELSE BranchListing(up)

get_branch_shas_only(up) == BranchListing(up)

\* newest first, at most `limit`
get_commits(up, limit, branch) ==
    Reverse(TakeLast(IF branch = DefaultBranch THEN up.main
                     ELSE up.branches[branch].ahead, limit))

\* the compare API: oldest first, the first `limit`
get_branch_commits_since_base(up, branch, base_branch, limit) ==
    Take(IF branch = DefaultBranch THEN Tail(up.main)
         ELSE up.branches[branch].ahead, limit)

get_branch_comparison(up, base_branch, compare_branch) ==
    IF up.branches[compare_branch].orphan
    THEN [ahead_by |-> -1, is_orphan |-> TRUE]
    ELSE [ahead_by |-> Len(up.branches[compare_branch].ahead), is_orphan |-> FALSE]

\* newest first
get_releases(up) == [i \in 1..up.release |-> [id |-> up.release + 1 - i]]

----------------------------------------------------------------------------
(* url_utils.py and GitHubFetcher.extract_owner_repo. A URL is its prefix  *)
(* up to the first path segment and the path segments after it.            *)

GitHubHost == "https://github.com"

\* str.lower() on the segments this model uses
Lower(seg) ==
    CASE seg = "O" -> "o"
      [] seg = "R" -> "r"
      [] OTHER -> seg

\* re.match(r'https://github.com/([^/]+)/([^/]+)', url)
extract_owner_repo(url) ==
    IF url.host = GitHubHost /\ Len(url.path) >= 2
    THEN [error |-> "none", owner |-> url.path[1], repo_name |-> url.path[2]]
    ELSE [error |-> "ValueError", owner |-> None, repo_name |-> None]

\* Mutation: the key keeps the spelling of the URL.
extract_repo_info_verbatim(url) ==
    LET m == extract_owner_repo(url)
    IN  [owner |-> m.owner, repo_name |-> m.repo_name,
         repo_key |-> m.owner \o "/" \o m.repo_name]

\* extract_repo_info(url, fetcher, include_repo_key=True)
extract_repo_info(url) ==
    LET m == extract_owner_repo(url)
    IN  IF m.error = "none"
        THEN [owner |-> m.owner, repo_name |-> m.repo_name,
              repo_key |-> Lower(m.owner) \o "/" \o Lower(m.repo_name)]
        ELSE [owner |-> None, repo_name |-> Last(url.path),
              repo_key |-> Lower(Last(url.path))]

----------------------------------------------------------------------------
(* repo_utils.py *)

has_newer_releases(releases, last_release) ==
    IF releases # << >> /\ last_release # None
    THEN <<releases[1].id>> # last_release
    ELSE releases # << >>

----------------------------------------------------------------------------
(* news_processor.py                                                       *)
(* A run of NewsProcessor._process_repository is a function of the loaded state, the     *)
(* upstream snapshot and failAt, the index of the generate_summary call    *)
(* that raises (0: none does). It yields                                   *)
(*   state      self.state when the method returns or raises               *)
(*   path       "fast", "selective" or "full"                              *)
(*   summaries  the generate_summary calls that returned, in order         *)
(*   analysed   per compared branch: unfiltered and filtered commit lists  *)
(*   calls      number of get_branch_comparison and                        *)
(*              get_branch_commits_since_base calls issued                 *)
(*   raised     the method raised                                          *)

\* One branch of the loop of _analyze_individual_branches.
AnalyseBranch(state, repo_key, up, default_branch, branch_name) ==
    LET comparison == get_branch_comparison(up, default_branch, branch_name)
        is_orphan  == comparison.is_orphan
        commits_ahead == IF is_orphan THEN 1 ELSE comparison.ahead_by
        all_branch_commits ==
            IF commits_ahead > 0
            THEN IF is_orphan
                 THEN Reverse(get_commits(up, max_commits, branch_name))
                 ELSE get_branch_commits_since_base(up, branch_name, default_branch, max_commits)
            ELSE << >>
        branch_commits ==
            IF commits_ahead > 0
            THEN filter_commits_since_last_processed(
                     all_branch_commits, SavedBranchCommit(state, repo_key, branch_name))
            ELSE << >>
    IN  [branch_name |-> branch_name,
         commits_ahead |-> Len(branch_commits),
         commits |-> branch_commits,
         unfiltered |-> all_branch_commits,
         calls |-> 1 + (IF commits_ahead > 0 /\ ~is_orphan THEN 1 ELSE 0),
         include |-> /\ commits_ahead >= min_branch_commits
                     /\ should_process_branch_by_state(
                            state, repo_key, branch_name, branch_commits, save_state)]

\* The listing is sorted by name already (BranchListing), so is the filtered
\* candidate list after candidate_branches.sort.
_analyze_individual_branches(state, repo_key, up, default_branch) ==
    LET all_branches == get_repository_branches(up, max_branches_per_repo * 2)
        candidate_branches ==
            Take(SelectSeq(all_branches, LAMBDA b : b.name # default_branch),
                 max_branches_per_repo)
    IN  [i \in 1..Len(candidate_branches) |->
            AnalyseBranch(state, repo_key, up, default_branch, candidate_branches[i].name)]

\* One branch of the loop of _process_branch_subset.
SubsetBranch(state, repo_key, up, default_branch, branch_name) ==
    LET comparison == get_branch_comparison(up, default_branch, branch_name)
        commits_ahead == comparison.ahead_by
        all_branch_commits ==
            IF commits_ahead > 0
            THEN get_branch_commits_since_base(up, branch_name, default_branch, max_commits)
            ELSE << >>
        branch_commits ==
            IF commits_ahead > 0
            THEN filter_commits_since_last_processed(
                     all_branch_commits, SavedBranchCommit(state, repo_key, branch_name))
            ELSE << >>
    IN  [branch_name |-> branch_name,
         commits_ahead |-> Len(branch_commits),
         commits |-> branch_commits,
         unfiltered |-> all_branch_commits,
         calls |-> 1 + (IF commits_ahead > 0 THEN 1 ELSE 0),
         include |-> commits_ahead >= min_branch_commits /\ branch_commits # << >>]

_process_branch_subset(branches_to_process, state, repo_key, up, default_branch) ==
    [i \in 1..Len(branches_to_process) |->
        SubsetBranch(state, repo_key, up, default_branch, branches_to_process[i])]

Included(analysed) == SelectSeq(analysed, LAMBDA a : a.include)

RECURSIVE SumCalls(_)
SumCalls(analysed) ==
    IF analysed = << >> THEN 0 ELSE Head(analysed).calls + SumCalls(Tail(analysed))

\* for branch_data in individual_branches: StateManager.update_branch_state(...)
RECURSIVE UpdateBranches(_, _, _)
UpdateBranches(state, repo_key, individual_branches) ==
    IF individual_branches = << >> THEN state
    ELSE UpdateBranches(
             update_branch_state(state, repo_key, Head(individual_branches).branch_name,
                                 Head(individual_branches).commits,
                                 Head(individual_branches).commits_ahead),
             repo_key, Tail(individual_branches))

_update_repository_state_with_individual_branches(state, repo_key, has_newer_commits, has_newer_rel, cs, releases, up, individual_branches) ==
    LET s1 == IF has_newer_commits \/ has_newer_rel
              THEN update_basic_repository_state(
                       state, repo_key,
                       IF has_newer_commits THEN cs ELSE << >>,
                       IF has_newer_rel THEN releases ELSE << >>,
                       get_latest_commit_sha(up))
              ELSE state
    IN  UpdateBranches(s1, repo_key, individual_branches)

BranchSummaries(individual_branches) ==
    [i \in 1..Len(individual_branches) |->
        [target |-> individual_branches[i].branch_name,
         commits |-> individual_branches[i].commits]]

\* `up` is the repository as the calls that list commits, releases and
\* branches see it, `late` the repository when, after the summaries,
\* update_basic_repository_state asks for the latest commit SHA.
_process_full_repository_at(state, repo_key, up, late, failAt) ==
    LET rs == get_repository_state(state, repo_key)
        last_commit  == rs.last_commit
        last_release == rs.last_release
        default_branch == get_default_branch(up)
        cs == IF up.is_fork
              THEN filter_commits_since_last_processed(
                       get_branch_commits_since_base(up, default_branch, default_branch,
                                                     max_commits), last_commit)
              ELSE filter_commits_since_last_processed(
                       Reverse(get_commits(up, max_commits, DefaultBranch)), last_commit)
        has_newer_commits == Len(cs) > 0
        releases == get_releases(up)
        has_newer_rel == has_newer_releases(releases, last_release)
        analysed == _analyze_individual_branches(state, repo_key, up, default_branch)
        individual_branches == Included(analysed)
        has_main_updates == has_newer_commits \/ (has_newer_rel /\ releases # << >>)
        wanted == (IF has_main_updates
                   THEN <<[target |-> DefaultBranch, commits |-> cs]>> ELSE << >>)
                  \o BranchSummaries(individual_branches)
        raised == failAt \in 1..Len(wanted)
    IN  [state |-> IF ~raised /\ (has_main_updates \/ individual_branches # << >>)
                   THEN _update_repository_state_with_individual_branches(
                            state, repo_key, has_newer_commits, has_newer_rel,
                            cs, releases, late, individual_branches)
                   ELSE state,
         path |-> "full",
         summaries |-> IF raised THEN Take(wanted, failAt - 1) ELSE wanted,
         analysed |-> analysed,
         calls |-> SumCalls(analysed) + (IF up.is_fork THEN 1 ELSE 0),
         raised |-> raised]

\* Nothing changes upstream while the method runs.
_process_full_repository(state, repo_key, up, failAt) ==
    _process_full_repository_at(state, repo_key, up, up, failAt)

_process_selective_branches(state, repo_key, up, new_branches, changed_branches, failAt) ==
    LET default_branch == get_default_branch(up)
        branches_to_process ==
            SelectSeq(new_branches \o changed_branches, LAMBDA b : b # default_branch)
        analysed == _process_branch_subset(branches_to_process, state, repo_key, up,
                                           default_branch)
        individual_branches == Included(analysed)
        wanted == BranchSummaries(individual_branches)
        raised == failAt \in 1..Len(wanted)
    IN  [state |-> IF raised THEN state
                   ELSE UpdateBranches(state, repo_key, individual_branches),
         path |-> "selective",
         summaries |-> IF raised THEN Take(wanted, failAt - 1) ELSE wanted,
         analysed |-> analysed,
         calls |-> SumCalls(analysed),
         raised |-> raised]

NewsProcessor_process_repository_at(state, repo_key, up, late, failAt) ==
    LET current_main_sha == get_current_main_sha(up)
    IN  IF save_state /\ main_branch_unchanged(state, repo_key, current_main_sha)
        THEN LET np == needs_repository_processing(
                           state, repo_key, current_main_sha, get_branch_shas_only(up))
             IN  IF ~np.needs_processing
                 THEN [state |-> state, path |-> "fast", summaries |-> << >>,
                       analysed |-> << >>, calls |-> 0, raised |-> FALSE]
                 ELSE _process_selective_branches(
                          state, repo_key, up, np.new_branches, np.changed_branches, failAt)
        ELSE _process_full_repository_at(state, repo_key, up, late, failAt)

\* Nothing changes upstream while the method runs.
NewsProcessor_process_repository(state, repo_key, up, failAt) ==
    NewsProcessor_process_repository_at(state, repo_key, up, up, failAt)

----------------------------------------------------------------------------
(* Forks: configuration, fetcher view, state manager, forks_processor.py   *)
(*   up  fork full name -> [default_branch, branches], where branches is   *)
(*       name -> [ahead, n]: the commits of the fork's branch that are     *)
(*       ahead of the parent's default branch (full SHAs, oldest first)    *)
(*       and the number of events the branch has seen                      *)
(* Fork and branch names are numbers; branch 0 is the branch named "main". *)

max_forks == 2                       \* max_forks
min_commits_ahead == 1               \* min_commits_ahead
max_branches_per_fork == 2           \* max_branches_per_fork
analyze_default_branch_always == TRUE

MainName == 0

\* .sha[0:7] of the jq filter of compare_branch_with_parent
ShaAbbrev == 7
Abbrev(sha) == SubSeq(sha, 1, IF Len(sha) < ShaAbbrev THEN Len(sha) ELSE ShaAbbrev)

ForkListing(up) ==
    LET names == SortedSeq(DOMAIN up)
    IN  [i \in 1..Len(names) |->
            [full_name |-> names[i], default_branch |-> up[names[i]].default_branch,
             updated_at |-> [tz |-> TRUE, instant |-> up[names[i]].updated_at]]]

get_forks(up, limit) == Take(ForkListing(up), limit)

get_fork_last_commits(up, limit) == Take(ForkListing(up), limit)

get_fork_branches(up, fork) ==
    LET names == SortedSeq(DOMAIN up[fork].branches)
    IN  [i \in 1..Len(names) |-> [name |-> names[i]]]

compare_branch_with_parent(up, fork, branch) ==
    LET ahead == up[fork].branches[branch].ahead
    IN  [ahead_by |-> Len(ahead),
         commits |-> [i \in 1..Len(ahead) |-> [sha |-> Abbrev(ahead[i].sha)]]]

_transform_comparison_commits(comparison_commits) ==
    [i \in 1..Len(comparison_commits) |-> [sha |-> comparison_commits[i].sha]]

\* saved_branches.get(branch_name, {}).get('last_ahead_commit')
SavedForkBranchCommit(state, repo_key, fork, branch_name) ==
    LET pf == get_repository_state(state, repo_key).processed_forks
    IN  IF fork \in DOMAIN pf /\ branch_name \in DOMAIN pf[fork].branches
        THEN pf[fork].branches[branch_name].last_ahead_commit
        ELSE None

\* Mutation: the anchor is the first commit of the list, not the last.
ForkBranchEntry_first(branch_analysis) ==
    [last_ahead_commit |->
        IF branch_analysis.original_commits # << >>
        THEN branch_analysis.original_commits[1].sha
        ELSE IF branch_analysis.commits # << >>
        THEN branch_analysis.commits[1].sha
        ELSE None,
     commits_ahead |-> branch_analysis.commits_ahead,
     last_check |-> Stamp]

\* The entry update_fork_state builds for one branch of branches_to_save.
ForkBranchEntry(branch_analysis) ==
    [last_ahead_commit |->
        IF branch_analysis.original_commits # << >>
        THEN Last(branch_analysis.original_commits).sha
        ELSE IF branch_analysis.commits # << >>
        THEN Last(branch_analysis.commits).sha
        ELSE None,
     commits_ahead |-> branch_analysis.commits_ahead,
     last_check |-> Stamp]

\* Mutation: the anchor is taken from the filtered list only.
update_fork_state_filtered(state, repo_key, fork_info) ==
    LET cur == get_repository_state(state, repo_key)
        saved == fork_info.all_processed_branches
        names == {saved[i].branch_name : i \in 1..Len(saved)}
        entry(b) == LET a == saved[CHOOSE i \in 1..Len(saved) :
                                     /\ saved[i].branch_name = b
                                     /\ \A j \in (i + 1)..Len(saved) : saved[j].branch_name # b]
                    IN  [last_ahead_commit |-> IF a.commits # << >>
                                               THEN Last(a.commits).sha ELSE None,
                         commits_ahead |-> a.commits_ahead,
                         last_check |-> Stamp]
        defaults == SelectSeq(fork_info.branches, LAMBDA b : b.is_default)
        fs == [branches |-> [b \in names |-> entry(b)],
               default_branch |-> IF defaults # << >> THEN defaults[1].branch_name
                                  ELSE MainName,
               total_commits_ahead |-> fork_info.commits_ahead,
               last_check |-> Stamp]
    IN  Put(state, repo_key,
            [cur EXCEPT !.processed_forks = Put(cur.processed_forks, fork_info.fork_name, fs),
                        !.last_fork_check = Stamp])

update_fork_state(state, repo_key, fork_info) ==
    LET cur == get_repository_state(state, repo_key)
        saved == fork_info.all_processed_branches
        names == {saved[i].branch_name : i \in 1..Len(saved)}
        \* a later entry for the same name overwrites an earlier one
        entry(b) == ForkBranchEntry(saved[CHOOSE i \in 1..Len(saved) :
                                     /\ saved[i].branch_name = b
                                     /\ \A j \in (i + 1)..Len(saved) : saved[j].branch_name # b])
        defaults == SelectSeq(fork_info.branches, LAMBDA b : b.is_default)
        fs == [branches |-> [b \in names |-> entry(b)],
               default_branch |-> IF defaults # << >> THEN defaults[1].branch_name
                                  ELSE MainName,
               total_commits_ahead |-> fork_info.commits_ahead,
               last_check |-> Stamp]
    IN  Put(state, repo_key,
            [cur EXCEPT !.processed_forks = Put(cur.processed_forks, fork_info.fork_name, fs),
                        !.last_fork_check = Stamp])

should_process_fork_by_state(state, repo_key, fork_name, branch_analyses, save_state_enabled) ==
    IF ~save_state_enabled THEN TRUE
    ELSE LET pf == get_repository_state(state, repo_key).processed_forks
         IN  IF fork_name \notin DOMAIN pf THEN TRUE
             ELSE \E i \in 1..Len(branch_analyses) :
                    /\ branch_analyses[i].commits # << >>
                    /\ Last(branch_analyses[i].commits).sha
                         # SavedForkBranchCommit(state, repo_key, fork_name,
                                                 branch_analyses[i].branch_name)

\* The instant of a fork's updated_at relative to the stored last_check of
\* the fork; the model keeps no other time.
LaterThanCheck == "later"
NotLaterThanCheck == "not later"
TheCheck == "check"

\* datetime > datetime: TypeError when exactly one of the two carries a
\* UTC offset.
DatetimeGreater(a, b) ==
    IF a.tz # b.tz THEN "TypeError"
    ELSE IF a.instant = LaterThanCheck /\ b.instant = TheCheck THEN "True"
    ELSE "False"

\* datetime.fromisoformat(last_check): last_check is the isoformat of
\* datetime.now(), with no offset.
ParseLastCheck(last_check) == [tz |-> FALSE, instant |-> TheCheck]

\* updated_at is "...Z", read with an offset. try: return
\* fork_update_time > last_check_time / except: return True
_should_process_fork_by_state(state, repo_key, fork_full_name, fork_basic_info) ==
    IF ~save_state THEN TRUE
    ELSE LET pf == get_repository_state(state, repo_key).processed_forks
         IN  IF fork_full_name \notin DOMAIN pf THEN TRUE
             ELSE IF pf[fork_full_name].last_check = None THEN TRUE
             ELSE LET greater == DatetimeGreater(fork_basic_info.updated_at,
                                                 ParseLastCheck(pf[fork_full_name].last_check))
                  IN  IF greater = "TypeError" THEN TRUE ELSE greater = "True"

\* Mutation: the other branches are left in the order of the listing.
_prioritize_branches_unsorted(branches, default_branch, max_branches) ==
    Take(Take(SelectSeq(branches, LAMBDA b : b.name = default_branch), 1)
         \o SelectSeq(branches, LAMBDA b : b.name # default_branch), max_branches)

_prioritize_branches(branches, default_branch, max_branches) ==
    LET first == SelectSeq(branches, LAMBDA b : b.name = default_branch)
        other == SelectSeq(branches, LAMBDA b : b.name # default_branch)
        names == SortedSeq({other[i].name : i \in 1..Len(other)})
    IN  Take(Take(first, 1) \o [i \in 1..Len(names) |-> [name |-> names[i]]], max_branches)

\* One branch of the loop of _process_fork_branches.
ForkBranch(state, repo_key, up, fork, fork_default_branch, branch_name) ==
    LET is_default == branch_name = fork_default_branch
        comparison == compare_branch_with_parent(up, fork, branch_name)
        commits_ahead == comparison.ahead_by
        should_include ==
            \/ commits_ahead >= min_commits_ahead
            \/ (is_default /\ analyze_default_branch_always /\ commits_ahead > 0)
        original_commits == _transform_comparison_commits(comparison.commits)
        last == SavedForkBranchCommit(state, repo_key, fork, branch_name)
        branch_commits ==
            IF last # None /\ original_commits # << >>
            THEN filter_commits_since_last_processed(original_commits, last)
            ELSE original_commits
    IN  [branch_name |-> branch_name,
         commits_ahead |-> Len(branch_commits),
         is_default |-> is_default,
         commits |-> branch_commits,
         original_commits |-> original_commits,
         original_commit_count |-> commits_ahead,
         should_include |-> should_include]

\* fork_info, or ok = FALSE for the None result.
_process_fork_branches(state, repo_key, up, fork, fork_default_branch) ==
    LET fork_branches == get_fork_branches(up, fork)
        prioritized == _prioritize_branches(fork_branches, fork_default_branch,
                                            max_branches_per_fork)
        compared == [i \in 1..Len(prioritized) |->
                        ForkBranch(state, repo_key, up, fork, fork_default_branch,
                                   prioritized[i].name)]
        all_processed_branches == SelectSeq(compared, LAMBDA a : a.should_include)
        kept == SelectSeq(all_processed_branches, LAMBDA a : a.commits_ahead # 0)
        branch_analyses ==
            [i \in 1..Len(kept) |-> [kept[i] EXCEPT !.commits = Take(@, max_commits)]]
        has_default_commits ==
            \E i \in 1..Len(all_processed_branches) :
                /\ all_processed_branches[i].is_default
                /\ all_processed_branches[i].commits_ahead > 0
        none == \/ fork_branches = << >>
                \/ (branch_analyses = << >>
                    /\ (all_processed_branches = << >> \/ ~has_default_commits))
                \/ ~should_process_fork_by_state(state, repo_key, fork, branch_analyses,
                                                 save_state)
    IN  [ok |-> ~none,
         fork_name |-> fork,
         commits_ahead |-> Len(Concat([i \in 1..Len(kept) |-> kept[i].commits])),
         commits |-> Take(Concat([i \in 1..Len(kept) |-> Take(kept[i].commits, max_commits)]),
                          max_commits),
         branches |-> branch_analyses,
         all_processed_branches |-> all_processed_branches,
         compared |-> compared]

\* The loop of _process_fork_subset from fork number i on. `calls` counts the
\* generate_summary calls made so far; call number failAt raises.
RECURSIVE ForkLoop(_, _, _, _, _, _, _, _)
ForkLoop(forks, i, state, repo_key, up, failAt, calls, acc) ==
    IF i > Len(forks) THEN [acc EXCEPT !.state = state]
    ELSE LET fork == forks[i]
             fa == _process_fork_branches(state, repo_key, up, fork.full_name,
                                          fork.default_branch)
             seen == [acc EXCEPT !.analyses = Append(@, fa)]
         IN  IF ~fa.ok
             THEN ForkLoop(forks, i + 1, state, repo_key, up, failAt, calls, seen)
             ELSE IF calls + 1 = failAt
             THEN ForkLoop(forks, i + 1, state, repo_key, up, failAt, calls + 1,
                           [seen EXCEPT !.failed = Append(@, fa.fork_name)])
             ELSE ForkLoop(forks, i + 1, update_fork_state(state, repo_key, fa),
                           repo_key, up, failAt, calls + 1,
                           [seen EXCEPT !.summaries = Append(@, fa.fork_name),
                                        !.recorded = Append(@, fa)])

NoForkRun == [state |-> << >>, analyses |-> << >>, summaries |-> << >>,
              failed |-> << >>, recorded |-> << >>]

_process_fork_subset(forks_to_process, state, repo_key, up, failAt) ==
    ForkLoop(forks_to_process, 1, state, repo_key, up, failAt, 0, NoForkRun)

ForksProcessor_process_repository(state, repo_key, up, failAt) ==
    LET forks == get_forks(up, max_forks)
        current_forks == get_fork_last_commits(up, max_forks)
        forks_to_process ==
            SelectSeq(current_forks,
                      LAMBDA f : _should_process_fork_by_state(state, repo_key,
                                                               f.full_name, f))
    IN  IF forks = << >> \/ forks_to_process = << >>
        THEN [NoForkRun EXCEPT !.state = state]
        ELSE _process_fork_subset(forks_to_process, state, repo_key, up, failAt)

----------------------------------------------------------------------------
(* Each specification below drives one group of variables and leaves the   *)
(* other groups at these values.                                           *)

FilterIdle ==
    /\ commits = << >>
    /\ last_processed_commit = None
    /\ filtered = << >>
    /\ fpc = "idle"

RepoKey == "o/r"

Commit(b, j) == [sha |-> <<b, j>>]

NoRun == [ran |-> FALSE, path |-> "none", summaries |-> << >>, analysed |-> << >>,
          calls |-> 0, raised |-> FALSE, base |-> None]

NewsIdle ==
    /\ nUp = [main |-> <<Commit(0, 1)>>, is_fork |-> FALSE, release |-> 0,
              branches |-> << >>]
    /\ nStore = << >>
    /\ nPrev = << >>
    /\ nOut = NoRun
    /\ nQuiet = FALSE
    /\ nWasQuiet = FALSE
    /\ nBase = None

NoForksRun == [ran |-> FALSE, analyses |-> << >>, summaries |-> << >>,
               failed |-> << >>, recorded |-> << >>, updated_at |-> << >>]

ForksIdle ==
    /\ kUp = << >>
    /\ kStore = << >>
    /\ kPrev = << >>
    /\ kOut = NoForksRun
    /\ kQuiet = FALSE
    /\ kWasQuiet = FALSE

AbsentFile == [status |-> "absent", data |-> << >>]

ParIdle ==
    /\ pCfg = [repos |-> << >>, max_workers |-> 0, failing |-> {}]
    /\ pThreads = << >>
    /\ pState = << >>
    /\ pRepoLocks = << >>
    /\ pStateLock = {}
    /\ pDisk = AbsentFile
    /\ pDirty = FALSE
    /\ pOrder = << >>
    /\ pCrashed = FALSE

DecideIdle ==
    /\ dState = << >>
    /\ dBefore = << >>
    /\ dArgs = << >>
    /\ dRet = << >>
    /\ dpc = "idle"

\* Nothing was put into the display queue; the display thread waits in
\* self._display_queue.get().
DispIdle ==
    /\ dSent = << >>
    /\ dShown = << >>
    /\ dThread = "running"
    /\ dDebug = FALSE

CallIdle ==
    /\ cArgs = << >>
    /\ cRet = << >>
    /\ cpc = "idle"

\* The files of the state directory: self.state_path, the two files of
\* get_state_filename, the temporary files of the migration and the backups
\* the migration leaves.
LegacyFile == "state.json"
NewsFile == "news_state.json"
ForksFile == "forks_state.json"
NewsTemp == "news_state.json.tmp"
ForksTemp == "forks_state.json.tmp"
MigratedBackup == "state.json.migrated"
EmptyBackup == "state.json.empty_backup"
CorruptedBackup == "state.json.corrupted_backup"
StorePaths == {LegacyFile, NewsFile, ForksFile, NewsTemp, ForksTemp,
               MigratedBackup, EmptyBackup, CorruptedBackup}

NoUrl == [host |-> "", path |-> << >>]

\* No command has run yet.
IdleRun ==
    [pc |-> "idle", kind |-> "none", repo |-> [name |-> "", url |-> NoUrl],
     debug |-> FALSE, state |-> << >>, start |-> << >>, error |-> "none",
     news_state |-> << >>, forks_state |-> << >>, processed |-> FALSE,
     warnings |-> {}, lookups |-> {}, saves |-> 0, cleared |-> "", loaded |-> << >>,
     failed_step |-> "none"]

StoreIdle ==
    /\ sFiles = [f \in StorePaths |-> AbsentFile]
    /\ sRemote = 0
    /\ sRun = IdleRun

----------------------------------------------------------------------------
(* Consecutive news runs over one repository whose upstream changes        *)
(* between the runs. A run loads news_state.json, processes the            *)
(* repository and saves the state (ParallelBaseProcessor.execute with one  *)
(* repository).                                                            *)

NumBranches == 2     \* non-default branch names 1..NumBranches
MaxEvents == 4       \* upstream events: pushes, branch creations, releases
MaxRelease == 1      \* releases published

\* for b in branches: total += 1 + len(ahead)
RECURSIVE BranchEvents(_, _)
BranchEvents(up, names) ==
    IF names = {} THEN 0
    ELSE LET b == CHOOSE x \in names : TRUE
         IN  1 + up.branches[b].n - (IF up.branches[b].orphan THEN 1 ELSE 0)
               + BranchEvents(up, names \ {b})

\* Number of upstream events that led to `up`.
Events(up) == (Len(up.main) - 1) + up.release + BranchEvents(up, DOMAIN up.branches)

\* The [repositories] entry of the one repository, as the user may spell it.
Urls == {[host |-> GitHubHost, path |-> <<"o", "r">>],
         [host |-> GitHubHost, path |-> <<"O", "R">>]}

InitNews ==
    /\ FilterIdle
    /\ ForksIdle
    /\ ParIdle
    /\ DecideIdle
    /\ StoreIdle
    /\ CallIdle
    /\ DispIdle
    /\ nUp \in {[main |-> <<Commit(0, 1)>>, is_fork |-> f, release |-> 0,
                 branches |-> << >>] : f \in BOOLEAN}
    /\ nStore = << >>
    /\ nPrev = << >>
    /\ nOut = NoRun
    /\ nQuiet = FALSE
    /\ nWasQuiet = FALSE
    /\ nBase = None

\* An upstream change: the record of the last run is dropped.
Upstream(up) ==
    /\ Events(nUp) < MaxEvents
    /\ nUp' = up
    /\ nOut' = NoRun
    /\ nPrev' = nStore
    /\ nQuiet' = FALSE
    /\ nWasQuiet' = FALSE
    /\ UNCHANGED <<nStore, nBase>>
    /\ UNCHANGED <<filterVars, forksVars, parVars, decideVars, storeVars, callVars, dispVars>>

PushMain ==
    Upstream([nUp EXCEPT !.main = Append(@, Commit(0, Len(@) + 1))])

CreateBranch(b) ==
    /\ b \notin DOMAIN nUp.branches
    /\ Upstream([nUp EXCEPT !.branches =
                    Put(@, b, [ahead |-> << >>, orphan |-> FALSE, n |-> 0])])

CreateOrphanBranch(b) ==
    /\ b \notin DOMAIN nUp.branches
    /\ Upstream([nUp EXCEPT !.branches =
                    Put(@, b, [ahead |-> <<Commit(b, 1)>>, orphan |-> TRUE, n |-> 1])])

PushBranch(b) ==
    /\ b \in DOMAIN nUp.branches
    /\ Upstream([nUp EXCEPT !.branches[b] =
                    [@ EXCEPT !.ahead = Append(@, Commit(b, nUp.branches[b].n + 1)),
                              !.n = @ + 1]])

\* git push --force: the branch now holds one commit never seen before.
RewriteBranch(b) ==
    /\ b \in DOMAIN nUp.branches
    /\ nUp.branches[b].ahead # << >>
    /\ Upstream([nUp EXCEPT !.branches[b] =
                    [@ EXCEPT !.ahead = <<Commit(b, nUp.branches[b].n + 1)>>,
                              !.n = @ + 1]])

PublishRelease ==
    /\ nUp.release < MaxRelease
    /\ Upstream([nUp EXCEPT !.release = @ + 1])

\* One batch over the repository, entered in config.txt by one of Urls and
\* known to the run by the key extract_repo_info makes of the URL. No
\* summary call raises, or one of the calls the run makes does.
NewsRun(repo_key) ==
    \E r0 \in {NewsProcessor_process_repository(nStore, repo_key, nUp, 0)} :
      \E failAt \in 0..Len(r0.summaries) :
        \E r \in {IF failAt = 0 THEN r0
                  ELSE NewsProcessor_process_repository(nStore, repo_key, nUp, failAt)} :
        /\ nStore' = r.state
        /\ nPrev' = nStore
        /\ nOut' = [ran |-> TRUE, path |-> r.path, summaries |-> r.summaries,
                    analysed |-> r.analysed, calls |-> r.calls, raised |-> r.raised,
                    base |-> nBase]
        /\ nQuiet' = ~r.raised
        /\ nWasQuiet' = nQuiet
        /\ nBase' = IF r.raised THEN nBase ELSE nUp
        /\ UNCHANGED nUp
        /\ UNCHANGED <<filterVars, forksVars, parVars, decideVars, storeVars, callVars, dispVars>>

NextNews ==
    \/ PushMain
    \/ \E b \in 1..NumBranches : CreateBranch(b)
    \/ \E b \in 1..NumBranches : CreateOrphanBranch(b)
    \/ \E b \in 1..NumBranches : PushBranch(b)
    \/ \E b \in 1..NumBranches : RewriteBranch(b)
    \/ PublishRelease
    \/ \E repo_key \in {extract_repo_info(url).repo_key : url \in Urls} :
          NewsRun(repo_key)

SpecNews == InitNews /\ [][NextNews]_vars

\* C1: a run that starts after a run that completed without failure, with
\* no upstream change in between, produces no summary and leaves the stored
\* state as it was (timestamps are all the one value Stamp).
NewsIdempotent ==
    (nOut.ran /\ nWasQuiet) => (nOut.summaries = << >> /\ nStore = nPrev)

\* C4: after a run, a tracked branch whose filtered list came out empty from
\* a non-empty unfiltered list has as stored last_commit the sha of the last
\* commit of the unfiltered list.
NewsNonRegression ==
    nOut.ran =>
        \A i \in 1..Len(nOut.analysed) :
            LET a == nOut.analysed[i]
                saved == get_repository_state(nStore, RepoKey).branches
            IN  (a.commits = << >> /\ a.unfiltered # << >> /\ a.branch_name \in DOMAIN saved)
                    => saved[a.branch_name].last_commit = Last(a.unfiltered).sha

\* C4 witness: a run compared a tracked branch, fetched commits for it and
\* filtered all of them away.
NewsNonRegressionWitness ==
    /\ nOut.ran
    /\ \E i \in 1..Len(nOut.analysed) :
          /\ nOut.analysed[i].commits = << >>
          /\ Len(nOut.analysed[i].unfiltered) >= 2
          /\ nOut.analysed[i].branch_name
                \in DOMAIN get_repository_state(nStore, RepoKey).branches

\* C13: a run that starts after a run that completed without failure, with
\* no upstream change in between, issues no get_branch_comparison and no
\* get_branch_commits_since_base call and makes no summary.
NoOpRunIsFast ==
    (nOut.ran /\ nWasQuiet) => (nOut.calls = 0 /\ nOut.summaries = << >>)

\* The commits of the default-branch summary of the last run, oldest first;
\* empty when the run made no such summary.
MainReported ==
    IF \E i \in 1..Len(nOut.summaries) : nOut.summaries[i].target = DefaultBranch
    THEN nOut.summaries[CHOOSE i \in 1..Len(nOut.summaries) :
                            nOut.summaries[i].target = DefaultBranch].commits
    ELSE << >>

\* The commits pushed to the default branch since the run before the last
\* that completed without failure, oldest first.
PushedToMain == SubSeq(nUp.main, Len(nOut.base.main) + 1, Len(nUp.main))

\* C14: a run that completes, after an earlier completed run since which at
\* most max_commits commits were pushed to the default branch, reports for
\* the default branch exactly those commits.
DefaultBranchDetection ==
    (nOut.ran /\ ~nOut.raised /\ nOut.base # None /\ Len(PushedToMain) <= max_commits)
        => MainReported = PushedToMain

\* The commits the last run reported for branch b; empty when it made no
\* summary for b.
BranchReported(b) ==
    IF \E i \in 1..Len(nOut.summaries) : nOut.summaries[i].target = b
    THEN nOut.summaries[CHOOSE i \in 1..Len(nOut.summaries) :
                            nOut.summaries[i].target = b].commits
    ELSE << >>

\* Branch b, with a common ancestor with the default branch, was tracked
\* when the last run started and commits were pushed on top of it since the
\* completed run before.
PushedToTracked(b) ==
    /\ nOut.base # None
    /\ b \in DOMAIN get_repository_state(nPrev, RepoKey).branches
    /\ b \in DOMAIN nOut.base.branches
    /\ ~nUp.branches[b].orphan
    /\ Len(nOut.base.branches[b].ahead) < Len(nUp.branches[b].ahead)
    /\ nOut.base.branches[b].ahead
          = Take(nUp.branches[b].ahead, Len(nOut.base.branches[b].ahead))

\* C15: a run that completes reports, for every tracked branch to which
\* commits were pushed since the completed run before, the newest of these
\* commits as new, and stores its SHA as the branch's last_commit.
BranchCommitDetection ==
    (nOut.ran /\ ~nOut.raised) =>
        \A b \in DOMAIN nUp.branches :
            PushedToTracked(b) =>
                /\ \E j \in 1..Len(BranchReported(b)) :
                       BranchReported(b)[j] = Last(nUp.branches[b].ahead)
                /\ SavedBranchCommit(nStore, RepoKey, b) = Last(nUp.branches[b].ahead).sha

\* Branch b was created after the completed run before the last run and
\* is at least min_branch_commits commits ahead of the default branch.
CreatedSinceBaseline(b) ==
    /\ nOut.base # None
    /\ b \notin DOMAIN nOut.base.branches
    /\ ~nUp.branches[b].orphan
    /\ Len(nUp.branches[b].ahead) >= min_branch_commits

\* C16: a run that completes makes a branch summary for every branch
\* created since the completed run before that is at least
\* min_branch_commits ahead, and adds the branch to the stored branches.
NewBranchDetection ==
    (nOut.ran /\ ~nOut.raised) =>
        \A b \in DOMAIN nUp.branches :
            CreatedSinceBaseline(b) =>
                /\ \E i \in 1..Len(nOut.summaries) : nOut.summaries[i].target = b
                /\ b \in DOMAIN get_repository_state(nStore, RepoKey).branches

\* The run found no entry for the repository and its default branch has
\* between 1 and max_commits commits.
FirstRun ==
    /\ nOut.ran
    /\ RepoKey \notin DOMAIN nPrev
    /\ Len(nUp.main) \in 1..max_commits

\* The n commits were summarized as new and the entry of the lowercase key
\* records the check and the newest of them.
FirstRunOutcome ==
    /\ \E i \in 1..Len(nOut.summaries) : nOut.summaries[i].target = DefaultBranch
    /\ MainReported = nUp.main
    /\ RepoKey \in DOMAIN nStore
    /\ nStore[RepoKey].last_check = Stamp
    /\ nStore[RepoKey].last_commit = Last(nUp.main).sha

OrphanBranchIndependent ==
    (nOut.ran /\ ~nOut.raised) =>
        \A i \in 1..Len(nOut.analysed) :
            LET a == nOut.analysed[i]
            IN  nUp.branches[a.branch_name].orphan =>
                    /\ a.unfiltered # << >>
                    /\ SavedBranchCommit(nPrev, RepoKey, a.branch_name) = None
                          => BranchReported(a.branch_name) # << >>

\* A run during which a commit is pushed to the default branch, after the
\* run has listed the commits and before it stores the state.
NewsRunDuringPush(repo_key) ==
    /\ Events(nUp) < MaxEvents
    /\ \E late \in {[nUp EXCEPT !.main = Append(@, Commit(0, Len(@) + 1))]} :
        \E r \in {NewsProcessor_process_repository_at(nStore, repo_key, nUp, late, 0)} :
          /\ nStore' = r.state
          /\ nPrev' = nStore
          /\ nOut' = [ran |-> TRUE, path |-> r.path, summaries |-> r.summaries,
                      analysed |-> r.analysed, calls |-> r.calls, raised |-> r.raised,
                      base |-> nBase]
          /\ nQuiet' = FALSE
          /\ nWasQuiet' = FALSE
          /\ nBase' = nUp
          /\ nUp' = late
    /\ UNCHANGED <<filterVars, forksVars, parVars, decideVars, storeVars, callVars, dispVars>>

NextNewsRace ==
    \/ NextNews
    \/ \E repo_key \in {extract_repo_info(url).repo_key : url \in Urls} :
          NewsRunDuringPush(repo_key)

SpecNewsRace == InitNews /\ [][NextNewsRace]_vars

\* C38: a run that changes the stored last_commit reported commits of the
\* default branch, and the stored last_commit is the SHA of the newest of
\* them.
NoSilentAdvance ==
    (/\ nOut.ran
     /\ ~nOut.raised
     /\ get_repository_state(nStore, RepoKey).last_commit
            # get_repository_state(nPrev, RepoKey).last_commit)
        => /\ MainReported # << >>
           /\ get_repository_state(nStore, RepoKey).last_commit = Last(MainReported).sha

\* C40: a run that completes, after an earlier completed run since which a
\* release was published, makes the default-branch summary that carries the
\* releases and stores the id of the newest release as last_release.
ReleaseDetection ==
    (nOut.ran /\ ~nOut.raised /\ nOut.base # None /\ nUp.release > nOut.base.release)
        => /\ \E i \in 1..Len(nOut.summaries) : nOut.summaries[i].target = DefaultBranch
           /\ get_repository_state(nStore, RepoKey).last_release = <<nUp.release>>

----------------------------------------------------------------------------
(* Consecutive forks runs over one parent repository whose forks change    *)
(* between the runs. A run loads forks_state.json, processes the parent    *)
(* and saves the state.                                                    *)

NumForks == 2          \* fork names 1..NumForks
NumForkBranches == 3   \* fork branch names 0..NumForkBranches-1
MaxForkEvents == 4     \* fork creations, branch creations, pushes

\* Full SHA of the commit that event number j of branch b of fork f made.
ForkCommit(f, b, j) == [sha |-> <<f, b, j, 0, 0, 0, 0, 0>>]

RECURSIVE ForkBranchEvents(_, _)
ForkBranchEvents(branches, names) ==
    IF names = {} THEN 0
    ELSE LET b == CHOOSE x \in names : TRUE
         IN  1 + branches[b].n + ForkBranchEvents(branches, names \ {b})

RECURSIVE ForkEvents(_, _)
ForkEvents(up, names) ==
    IF names = {} THEN 0
    ELSE LET f == CHOOSE x \in names : TRUE
         IN  ForkBranchEvents(up[f].branches, DOMAIN up[f].branches)
               + ForkEvents(up, names \ {f})

InitForks ==
    /\ FilterIdle
    /\ NewsIdle
    /\ ParIdle
    /\ DecideIdle
    /\ StoreIdle
    /\ CallIdle
    /\ DispIdle
    /\ kUp = << >>
    /\ kStore = << >>
    /\ kPrev = << >>
    /\ kOut = NoForksRun
    /\ kQuiet = FALSE
    /\ kWasQuiet = FALSE

\* A change of some fork: the record of the last run is dropped.
ForkUpstream(up) ==
    /\ ForkEvents(up, DOMAIN up) <= MaxForkEvents
    /\ kUp' = up
    /\ kOut' = NoForksRun
    /\ kPrev' = kStore
    /\ kQuiet' = FALSE
    /\ kWasQuiet' = FALSE
    /\ UNCHANGED kStore
    /\ UNCHANGED <<filterVars, newsVars, parVars, decideVars, storeVars, callVars, dispVars>>

\* A new fork holds its default branch, level with the parent.
CreateFork(f, d) ==
    /\ f \notin DOMAIN kUp
    /\ ForkUpstream(Put(kUp, f, [default_branch |-> d,
                                 branches |-> Put(<< >>, d, [ahead |-> << >>, n |-> 0])]))

CreateForkBranch(f, b) ==
    /\ f \in DOMAIN kUp
    /\ b \notin DOMAIN kUp[f].branches
    /\ ForkUpstream([kUp EXCEPT ![f].branches = Put(@, b, [ahead |-> << >>, n |-> 0])])

PushFork(f, b) ==
    /\ f \in DOMAIN kUp
    /\ b \in DOMAIN kUp[f].branches
    /\ ForkUpstream([kUp EXCEPT ![f].branches[b] =
                        [ahead |-> Append(@.ahead, ForkCommit(f, b, @.n + 1)),
                         n |-> @.n + 1]])

\* The parent merges the branch: nothing of it is ahead any more. The fork
\* itself did not change.
MergeFork(f, b) ==
    /\ f \in DOMAIN kUp
    /\ b \in DOMAIN kUp[f].branches
    /\ kUp[f].branches[b].ahead # << >>
    /\ ForkUpstream([kUp EXCEPT ![f].branches[b] = [ahead |-> << >>, n |-> @.n]])

\* git push --force: the branch now holds one commit never seen before.
RewriteFork(f, b) ==
    /\ f \in DOMAIN kUp
    /\ b \in DOMAIN kUp[f].branches
    /\ kUp[f].branches[b].ahead # << >>
    /\ ForkUpstream([kUp EXCEPT ![f].branches[b] =
                        [ahead |-> <<ForkCommit(f, b, @.n + 1)>>, n |-> @.n + 1]])

\* The processed_forks section of the stored state of the parent.
ProcessedForks(state) == get_repository_state(state, RepoKey).processed_forks

\* The forks as the listing of this run shows them: updated_at[f] tells
\* whether fork f's updated_at is later than the fork's stored last_check.
Listed(up, updated_at) ==
    [f \in DOMAIN up |-> [default_branch |-> up[f].default_branch,
                          branches |-> up[f].branches,
                          updated_at |-> updated_at[f]]]

\* One batch over the parent. No summary call raises, or one of the calls
\* the run makes does.
\* What the listing may show: a fork with a stored last_check was updated
\* after that check or was not; of a fork with none the model keeps no time.
UpdatedAts ==
    {u \in [DOMAIN kUp -> {LaterThanCheck, NotLaterThanCheck}] :
        \A f \in DOMAIN kUp :
            f \notin DOMAIN ProcessedForks(kStore) => u[f] = LaterThanCheck}

ForksRun(updated_at) ==
    \E r0 \in {ForksProcessor_process_repository(kStore, RepoKey,
                                                 Listed(kUp, updated_at), 0)} :
      \E failAt \in 0..Len(r0.summaries) :
        \E r \in {IF failAt = 0 THEN r0
                  ELSE ForksProcessor_process_repository(kStore, RepoKey,
                                                         Listed(kUp, updated_at), failAt)} :
        /\ kStore' = r.state
        /\ kPrev' = kStore
        /\ kOut' = [ran |-> TRUE, analyses |-> r.analyses, summaries |-> r.summaries,
                    failed |-> r.failed, recorded |-> r.recorded,
                    updated_at |-> updated_at]
        /\ kQuiet' = (r.failed = << >>)
        /\ kWasQuiet' = kQuiet
        /\ UNCHANGED kUp
        /\ UNCHANGED <<filterVars, newsVars, parVars, decideVars, storeVars, callVars, dispVars>>

NextForks ==
    \/ \E f \in 1..NumForks, d \in {MainName, 1} : CreateFork(f, d)
    \/ \E f \in 1..NumForks, b \in 0..(NumForkBranches - 1) : CreateForkBranch(f, b)
    \/ \E f \in 1..NumForks, b \in 0..(NumForkBranches - 1) : PushFork(f, b)
    \/ \E f \in 1..NumForks, b \in 0..(NumForkBranches - 1) : MergeFork(f, b)
    \/ \E f \in 1..NumForks, b \in 0..(NumForkBranches - 1) : RewriteFork(f, b)
    \/ \E updated_at \in UpdatedAts : ForksRun(updated_at)

SpecForks == InitForks /\ [][NextForks]_vars

\* C2: a forks run that starts after a run in which every fork summary
\* succeeded, with no change of any fork in between, asks for no fork
\* summary and leaves processed_forks as it was (every timestamp is the one
\* value Stamp).
ForksIdempotent ==
    (kOut.ran /\ kWasQuiet) =>
        /\ kOut.summaries = << >>
        /\ kOut.failed = << >>
        /\ ProcessedForks(kStore) = ProcessedForks(kPrev)

\* C2 witness: the second of two such runs, over a fork that the first run
\* summarised and recorded and whose recorded branch is still ahead.
ForksIdempotentWitness ==
    /\ kOut.ran
    /\ kWasQuiet
    /\ \E f \in DOMAIN ProcessedForks(kStore) :
          \E b \in DOMAIN ProcessedForks(kStore)[f].branches :
              /\ f \in DOMAIN kUp
              /\ b \in DOMAIN kUp[f].branches
              /\ Len(kUp[f].branches[b].ahead) >= 2

\* C5: a branch that update_fork_state recorded from a non-empty unfiltered
\* comparison list has as stored last_ahead_commit the sha of the last
\* commit of that list, also when its filtered list is empty.
ForkAnchorIsLastUnfiltered ==
    kOut.ran =>
        \A i \in 1..Len(kOut.recorded) :
            LET info == kOut.recorded[i]
            IN  \A j \in 1..Len(info.all_processed_branches) :
                    LET a == info.all_processed_branches[j]
                    IN  a.original_commits # << >> =>
                            ProcessedForks(kStore)[info.fork_name].branches[a.branch_name]
                                .last_ahead_commit = Last(a.original_commits).sha

\* C5 witness: a run recorded a fork with one branch whose new-only list is
\* empty while its unfiltered list is not.
ForkAnchorWitness ==
    /\ kOut.ran
    /\ \E i \in 1..Len(kOut.recorded) :
          \E j \in 1..Len(kOut.recorded[i].all_processed_branches) :
              /\ kOut.recorded[i].all_processed_branches[j].commits = << >>
              /\ kOut.recorded[i].all_processed_branches[j].original_commits # << >>

\* Branch b of fork f has an entry in the state the last run started from,
\* still exists and has no commit ahead of the parent.
Drained(f, b) ==
    /\ f \in DOMAIN ProcessedForks(kPrev)
    /\ b \in DOMAIN ProcessedForks(kPrev)[f].branches
    /\ f \in DOMAIN kUp
    /\ b \in DOMAIN kUp[f].branches
    /\ kUp[f].branches[b].ahead = << >>

\* The last run handed branch b of fork f to the summary of the fork.
ForkBranchSummarized(f, b) ==
    \E i \in 1..Len(kOut.analyses) :
        /\ kOut.analyses[i].ok
        /\ kOut.analyses[i].fork_name = f
        /\ \E j \in 1..Len(kOut.analyses[i].branches) :
               kOut.analyses[i].branches[j].branch_name = b

\* C17: after a run that found a branch recorded with 2 commits ahead at 0
\* commits ahead, the branch's entry is present with commits_ahead = 0 and
\* the branch was not summarized; a run that finds the drained entry
\* (commits_ahead = 0) leaves it as it is.
ForkBranchDrains ==
    kOut.ran =>
        \A f \in DOMAIN kUp : \A b \in DOMAIN kUp[f].branches :
            LET before == ProcessedForks(kPrev)[f].branches[b]
                after  == ProcessedForks(kStore)[f].branches
            IN  /\ (Drained(f, b) /\ before.commits_ahead = 2) =>
                      /\ b \in DOMAIN after
                      /\ after[b].commits_ahead = 0
                      /\ ~ForkBranchSummarized(f, b)
                /\ (Drained(f, b) /\ before.commits_ahead = 0) =>
                      /\ b \in DOMAIN after
                      /\ after[b] = before
                      /\ ~ForkBranchSummarized(f, b)

\* C18: a run removes no fork entry and no fork-branch entry from
\* processed_forks.
NoPruning ==
    kOut.ran =>
        \A f \in DOMAIN ProcessedForks(kPrev) :
            /\ f \in DOMAIN ProcessedForks(kStore)
            /\ DOMAIN ProcessedForks(kPrev)[f].branches
                  \subseteq DOMAIN ProcessedForks(kStore)[f].branches

\* The forks for which the last run listed the branches and compared them.
Candidates == {kOut.analyses[i].fork_name : i \in 1..Len(kOut.analyses)}

\* The forks of the stage-1 listing of the last run.
ListedForks ==
    LET current_forks == get_fork_last_commits(Listed(kUp, kOut.updated_at), max_forks)
    IN  {current_forks[i].full_name : i \in 1..Len(current_forks)}

\* C19: with state tracking on, the forks a run takes to the full
\* comparison are those of the listing that have no stored entry or whose
\* updated_at is not later than their stored last_check; for every other
\* listed fork the run lists no branch and compares none.
ForkTriageStage2 ==
    (kOut.ran /\ save_state) =>
        \A f \in ListedForks :
            f \in Candidates <=>
                \/ f \notin DOMAIN ProcessedForks(kPrev)
                \/ kOut.updated_at[f] = NotLaterThanCheck

\* C29: every fork branch that a run compares with the parent's default
\* branch has an entry in processed_forks[fork].branches after the run,
\* whether or not it was retained for the summary (stated of runs in which
\* no summary call raises).
ComparedBranchesRecorded ==
    (kOut.ran /\ kOut.failed = << >>) =>
        \A i \in 1..Len(kOut.analyses) :
            \A j \in 1..Len(kOut.analyses[i].compared) :
                LET f == kOut.analyses[i].fork_name
                    b == kOut.analyses[i].compared[j].branch_name
                IN  /\ f \in DOMAIN ProcessedForks(kStore)
                    /\ b \in DOMAIN ProcessedForks(kStore)[f].branches

----------------------------------------------------------------------------
(* One batch of the news processor: ParallelBaseProcessor.execute with its *)
(* worker pool, the per-entry locks, the state lock and the state file.    *)
(* config_manager.py: load_repositories, load_state, save_state.           *)

NumEntries == 2      \* [repositories] entries of config.txt
NumKeys == 2         \* owner/name keys the entries' URLs resolve to

MainThread == 0

\* for name, url in config['repositories'].items(): the names are the keys
\* of one config section, hence pairwise distinct; the URLs are free.
load_repositories ==
    {[i \in 1..NumEntries |-> [name |-> i, key |-> keys[i]]] :
        keys \in [1..NumEntries -> 1..NumKeys]}

\* Mutation: a file that is not JSON is read as the empty state.
load_state_lenient(disk) ==
    [error |-> "none", state |-> IF disk.status = "invalid" THEN << >> ELSE disk.data]

\* json.load of the state file; a missing file gives {} (no legacy file).
load_state(disk) ==
    IF disk.status = "invalid"
    THEN [error |-> "ValueError", state |-> << >>]
    ELSE [error |-> "none", state |-> disk.data]

\* open(state_file, 'w'): the file is truncated; an empty or partly written
\* file is not JSON.
OpenForWrite == [status |-> "invalid", data |-> << >>]

\* json.dump(state_data, f, indent=2) run to its end.
json_dump(state_data) == [status |-> "valid", data |-> state_data]

\* threading.Lock: free when nobody holds it.
repo_lock_free(holders) == holders = {}

\* Mutation: save_state is called without taking self._state_lock.
state_lock_free_unlocked(holders) == TRUE

state_lock_free(holders) == holders = {}

\* Mutation: the task does not call _save_repository_state.
AfterProcessing_no_flush(ok) == IF ok THEN "flushed" ELSE "raised"

\* Mutation: _process_repository_safe has no try/except around the call.
AfterProcessing_uncaught(ok) == IF ok THEN "to_save" ELSE "escaped"

\* try: _process_repository; _save_repository_state / except: display error
AfterProcessing(ok) == IF ok THEN "to_save" ELSE "raised"

\* What the future of a task holds when the task function is left: an
\* exception when one left the function, its return value otherwise.
FutureOutcome(pc) == [exception |-> pc = "escaped"]

\* concurrent.futures.wait/as_completed count a future as completed once its
\* task function has been left.
Completed(pc) == pc = "done"

\* Mutation: the task writes back the whole map it computed.
ApplyUpdate_snapshot(state, repo_key, new) == new

\* state[repo_key] = updated_state: the task's only write to self.state.
ApplyUpdate(state, repo_key, new) ==
    IF repo_key \in DOMAIN new THEN Put(state, repo_key, new[repo_key]) ELSE state

\* The upstream snapshot of repository k: k commits on the default branch.
ParUp(k) ==
    [main |-> [j \in 1..k |-> Commit(0, j)], is_fork |-> FALSE, release |-> 0,
     branches |-> << >>]

Tasks == 1..Len(pCfg.repos)
Name(t) == pCfg.repos[t].name
Key(t) == pCfg.repos[t].key
\* The first generate_summary call of a failing repository raises.
FailAt(t) == IF t \in pCfg.failing THEN 1 ELSE 0
Running == {t \in Tasks : pThreads[t].pc # "queued" /\ ~Completed(pThreads[t].pc)}
Writers == {th \in DOMAIN pThreads : pThreads[th].pc \in {"save_state", "opened"}}

InitBatch ==
    /\ FilterIdle
    /\ NewsIdle
    /\ ForksIdle
    /\ DecideIdle
    /\ StoreIdle
    /\ CallIdle
    /\ \E repos \in load_repositories, setting \in {1, NumEntries},
          failing \in SUBSET (1..NumEntries) :
          /\ pCfg = [repos |-> repos, max_workers |-> Min({Len(repos), setting}),
                     failing |-> failing]
          /\ pRepoLocks = [n \in {repos[i].name : i \in 1..Len(repos)} |-> {}]
    /\ pThreads = [th \in 0..NumEntries |->
                     [pc |-> IF th = MainThread THEN "waiting" ELSE "queued",
                      seen |-> << >>, ok |-> FALSE, saves |-> 0, dumped |-> FALSE]]
    /\ pState = load_state(AbsentFile).state
    /\ pStateLock = {}
    /\ pDisk = AbsentFile
    /\ pDirty = FALSE
    /\ pOrder = << >>
    /\ pCrashed = FALSE

\* The batch with nothing said about its output.
InitPar ==
    /\ InitBatch
    /\ DispIdle

BatchFrame == UNCHANGED <<filterVars, newsVars, forksVars, decideVars, storeVars, callVars>>

ParFrame == UNCHANGED <<filterVars, newsVars, forksVars, decideVars, storeVars, callVars, dispVars>>

\* A free worker of the pool takes the next submitted task.
Start(t) ==
    /\ ~pCrashed
    /\ pThreads[t].pc = "queued"
    /\ \A u \in 1..(t - 1) : pThreads[u].pc # "queued"
    /\ Cardinality(Running) < pCfg.max_workers
    /\ pThreads' = [pThreads EXCEPT ![t].pc = "lock_wait"]
    /\ UNCHANGED <<pCfg, pState, pRepoLocks, pStateLock, pDisk, pDirty, pOrder, pCrashed>>
    /\ ParFrame

\* with self._repo_locks[repo_name]: from here on the task reads self.state
AcquireRepoLock(t) ==
    /\ ~pCrashed
    /\ pThreads[t].pc = "lock_wait"
    /\ repo_lock_free(pRepoLocks[Name(t)])
    /\ pRepoLocks' = [pRepoLocks EXCEPT ![Name(t)] = @ \cup {t}]
    /\ pThreads' = [pThreads EXCEPT ![t].pc = "processing", ![t].seen = pState]
    /\ UNCHANGED <<pCfg, pState, pStateLock, pDisk, pDirty, pOrder, pCrashed>>
    /\ ParFrame

\* self._process_repository(repo) comes to its end. What it read of
\* self.state is the map as it was at some point since the task began.
ProcessState(t) ==
    /\ ~pCrashed
    /\ pThreads[t].pc = "processing"
    /\ \E base \in {pThreads[t].seen, pState} :
         \E r \in {NewsProcessor_process_repository(base, Key(t), ParUp(Key(t)), FailAt(t))} :
            /\ pState' = ApplyUpdate(pState, Key(t), r.state)
            /\ pThreads' = [pThreads EXCEPT ![t].pc = AfterProcessing(~r.raised),
                                            ![t].ok = ~r.raised,
                                            ![t].seen = << >>]
    /\ pDirty' = (pDirty \/ (\E th \in DOMAIN pThreads : pThreads[th].pc = "opened"
                                                          /\ DOMAIN pState' # DOMAIN pState))
    /\ UNCHANGED <<pCfg, pRepoLocks, pStateLock, pDisk, pOrder, pCrashed>>

Process(t) ==
    /\ ProcessState(t)
    /\ ParFrame

\* self._process_repository(repo) blocks in a call that never returns; the
\* worker thread stays inside the with block of the repository lock.
Hang(t) ==
    /\ ~pCrashed
    /\ pThreads[t].pc = "processing"
    /\ pThreads' = [pThreads EXCEPT ![t].pc = "hung"]
    /\ UNCHANGED <<pCfg, pState, pRepoLocks, pStateLock, pDisk, pDirty, pOrder, pCrashed>>
    /\ ParFrame

\* _save_repository_state / _save_state_if_enabled up to the call of
\* config_manager.save_state.
BeginSave(th) ==
    /\ ~pCrashed
    /\ pThreads[th].pc = "to_save"
    /\ IF save_state
       THEN /\ state_lock_free(pStateLock)
            /\ pStateLock' = pStateLock \cup {th}
            /\ pThreads' = [pThreads EXCEPT ![th].pc = "save_state"]
       ELSE /\ pThreads' = [pThreads EXCEPT ![th].pc =
                               IF th = MainThread THEN "returned" ELSE "flushed"]
            /\ UNCHANGED pStateLock
    /\ UNCHANGED <<pCfg, pState, pRepoLocks, pDisk, pDirty, pOrder, pCrashed>>
    /\ ParFrame

\* save_state: with open(state_file, 'w') as f
OpenStateFile(th) ==
    /\ ~pCrashed
    /\ pThreads[th].pc = "save_state"
    /\ pDisk' = OpenForWrite
    /\ pDirty' = FALSE
    /\ pThreads' = [pThreads EXCEPT ![th].pc = "opened", ![th].saves = @ + 1]
    /\ UNCHANGED <<pCfg, pState, pRepoLocks, pStateLock, pOrder, pCrashed>>
    /\ ParFrame

\* save_state: json.dump(state_data, f, indent=2), then the state lock is
\* released. The dump iterates self.state; when another task inserted a key
\* meanwhile the iteration may raise (RuntimeError: dictionary changed size
\* during iteration), which the caller catches and reports.
DumpState(th) ==
    /\ ~pCrashed
    /\ pThreads[th].pc = "opened"
    /\ \E complete \in (IF pDirty THEN BOOLEAN ELSE {TRUE}) :
          /\ pDisk' = IF complete THEN json_dump(pState) ELSE pDisk
          /\ pThreads' = [pThreads EXCEPT
                            ![th].pc = IF th = MainThread THEN "returned" ELSE "flushed",
                            ![th].dumped = complete]
    /\ pDirty' = FALSE
    /\ pStateLock' = pStateLock \ {th}
    /\ UNCHANGED <<pCfg, pState, pRepoLocks, pOrder, pCrashed>>

Dump(th) ==
    /\ DumpState(th)
    /\ ParFrame

\* _process_repository_safe leaves its with block; the future completes.
\* execute takes the completed future from as_completed and calls result()
\* on it inside try/except Exception.
ReleaseRepoLock(t) ==
    /\ ~pCrashed
    /\ t # MainThread
    /\ pThreads[t].pc \in {"flushed", "raised", "escaped"}
    /\ pRepoLocks' = [pRepoLocks EXCEPT ![Name(t)] = @ \ {t}]
    /\ pThreads' = [pThreads EXCEPT ![t].pc = "done"]
    /\ pOrder' = Append(pOrder, [task |-> t] @@ FutureOutcome(pThreads[t].pc))
    /\ UNCHANGED <<pCfg, pState, pStateLock, pDisk, pDirty, pCrashed>>
    /\ ParFrame

\* execute: as_completed has yielded every future, the executor is shut
\* down and the display thread joined; the final save is next.
AllCompleted ==
    /\ ~pCrashed
    /\ pThreads[MainThread].pc = "waiting"
    /\ \A t \in Tasks : Completed(pThreads[t].pc)
    /\ pThreads' = [pThreads EXCEPT ![MainThread].pc = "to_save"]
    /\ UNCHANGED <<pCfg, pState, pRepoLocks, pStateLock, pDisk, pDirty, pOrder, pCrashed>>
    /\ ParFrame

\* execute: 180 seconds after the call of as_completed some future has not
\* completed: the iterator raises TimeoutError in the for statement, outside
\* the try of the loop body. The exception leaves the with block of the
\* executor, whose __exit__ is shutdown(wait=True).
Timeout ==
    /\ ~pCrashed
    /\ pThreads[MainThread].pc = "waiting"
    /\ \E t \in Tasks : ~Completed(pThreads[t].pc)
    /\ pThreads' = [pThreads EXCEPT ![MainThread].pc = "shutdown"]
    /\ UNCHANGED <<pCfg, pState, pRepoLocks, pStateLock, pDisk, pDirty, pOrder, pCrashed>>
    /\ ParFrame

\* shutdown(wait=True) has joined every worker thread, the queued tasks
\* having run too; the TimeoutError leaves execute, past the display
\* sentinel and the final save.
ShutdownJoined ==
    /\ ~pCrashed
    /\ pThreads[MainThread].pc = "shutdown"
    /\ \A t \in Tasks : Completed(pThreads[t].pc)
    /\ pThreads' = [pThreads EXCEPT ![MainThread].pc = "raised"]
    /\ UNCHANGED <<pCfg, pState, pRepoLocks, pStateLock, pDisk, pDirty, pOrder, pCrashed>>
    /\ ParFrame

\* The process is killed before execute has returned.
Crash ==
    /\ ~pCrashed
    /\ pThreads[MainThread].pc \notin {"returned", "raised"}
    /\ pCrashed' = TRUE
    /\ UNCHANGED <<pCfg, pThreads, pState, pRepoLocks, pStateLock, pDisk, pDirty, pOrder>>
    /\ ParFrame

NextPar ==
    \/ \E t \in Tasks : Start(t)
    \/ \E t \in Tasks : AcquireRepoLock(t)
    \/ \E t \in Tasks : Process(t)
    \/ \E th \in DOMAIN pThreads : BeginSave(th)
    \/ \E th \in DOMAIN pThreads : OpenStateFile(th)
    \/ \E th \in DOMAIN pThreads : Dump(th)
    \/ \E t \in Tasks : ReleaseRepoLock(t)
    \/ AllCompleted
    \/ \E t \in Tasks : Hang(t)
    \/ Timeout
    \/ ShutdownJoined
    \/ Crash

SpecPar == InitPar /\ [][NextPar]_vars

DistinctKeys == \A t, u \in Tasks : t # u => Key(t) # Key(u)

\* C6: no two tasks are at the same time processing (reading and mutating
\* the RepositoryState of) the same repository key.
KeyMutualExclusion ==
    \A t, u \in Tasks :
        (t # u /\ pThreads[t].pc = "processing" /\ pThreads[u].pc = "processing")
            => Key(t) # Key(u)

\* C7: at most one thread is inside config_manager.save_state, the tasks'
\* flushes and the final save of the main thread counted alike.
WriteMutualExclusion == Cardinality(Writers) <= 1

\* C7 witness: with as many workers as repositories, one task is writing the
\* file while another has finished processing and waits for the state lock.
WriteMutualExclusionWitness ==
    /\ pCfg.max_workers = NumEntries
    /\ \E t, u \in Tasks :
          /\ t # u
          /\ pThreads[t].pc = "opened"
          /\ pThreads[u].pc = "to_save"

\* The state map of the batch run one repository after the other.
RECURSIVE SequentialState(_, _)
SequentialState(state, t) ==
    IF t > Len(pCfg.repos) THEN state
    ELSE SequentialState(
             ApplyUpdate(state, Key(t),
                 NewsProcessor_process_repository(state, Key(t), ParUp(Key(t)),
                                                  FailAt(t)).state),
             t + 1)

\* C8: with pairwise distinct repository keys, the state file after execute
\* has returned holds the map of the sequential batch, for pool size 1 and
\* pool size NumEntries and whatever the order of the tasks' steps.
FinalStateCommutes ==
    (pThreads[MainThread].pc = "returned" /\ DistinctKeys)
        => pDisk = json_dump(SequentialState(load_state(AbsentFile).state, 1))

\* C8 witness: a batch with distinct keys and a full pool has returned, its
\* tasks completed in another order than they were submitted, and each
\* recorded its repository.
FinalStateCommutesWitness ==
    /\ pThreads[MainThread].pc = "returned"
    /\ DistinctKeys
    /\ pCfg.max_workers = NumEntries
    /\ pCfg.failing = {}
    /\ pOrder[1].task # 1
    /\ \A t \in Tasks : Key(t) \in DOMAIN pDisk.data

CrashPreservesProgress ==
    pCrashed =>
        \A t \in Tasks :
            (pThreads[t].pc \in {"flushed", "done"} /\ pThreads[t].ok /\ pThreads[t].dumped)
                => /\ load_state(pDisk).error = "none"
                   /\ Key(t) \in DOMAIN load_state(pDisk).state
                   /\ load_state(pDisk).state[Key(t)] = pState[Key(t)]

Progress ==
    \/ \E t \in Tasks : Start(t) \/ AcquireRepoLock(t) \/ Process(t) \/ ReleaseRepoLock(t)
    \/ \E th \in DOMAIN pThreads : BeginSave(th) \/ OpenStateFile(th) \/ Dump(th)
    \/ AllCompleted
    \/ Timeout
    \/ ShutdownJoined

\* C20: while the process lives, a batch in which the processing of one
\* repository never returns has either returned from execute after the
\* final save or can take a further step towards it: neither the sibling
\* tasks nor the orchestrator wait for the call that blocks.
TaskTimeout ==
    (~pCrashed /\ \E t \in Tasks : pThreads[t].pc = "hung")
        => (pThreads[MainThread].pc = "returned" \/ ENABLED Progress)

----------------------------------------------------------------------------
(* The commands of gh-utils.py over the state directory, one process at a  *)
(* time: a news or forks run for one repository given by its URL           *)
(* (ParallelBaseProcessor.__init__ with load_state and the legacy          *)
(* migration, then execute with the flush of the task and the final save), *)
(* list, and clear. A process may be killed between any two of its writes  *)
(* to the directory. The process runs in the script directory, so that the *)
(* relative names of the migration are the files of get_state_filename.    *)

MaxHead == 2     \* commits of the monitored repository's default branch

StoreOwners == {"o", "p"}
StoreNames == {"r"}
KeyOf(owner, name) == owner \o "/" \o name
StoreKeys == {KeyOf(o, n) : o \in StoreOwners, n \in StoreNames}

\* key.split('/')[-1]
SplitLast(key) ==
    IF \E o \in StoreOwners, n \in StoreNames : key = KeyOf(o, n)
    THEN CHOOSE n \in StoreNames : \E o \in StoreOwners : key = KeyOf(o, n)
    ELSE key

get_state_filename(state_type) == IF state_type = "forks" THEN ForksFile ELSE NewsFile

\* The state_type property of the processor; list_command calls load_state()
\* with its default.
state_type(kind) == IF kind = "forks" THEN "forks" ELSE "news"

\* os.rename(src, dst): dst is replaced when it exists.
Rename(files, src, dst) == [files EXCEPT ![dst] = files[src], ![src] = AbsentFile]

\* The forks of the monitored repository: one fork, its default branch h
\* commits ahead of the parent.
StoreForks(h) ==
    (1 :> [default_branch |-> MainName,
           branches |-> (MainName :> [ahead |-> [j \in 1..h |-> ForkCommit(1, MainName, j)],
                                      n |-> h]),
           updated_at |-> LaterThanCheck])

\* The legacy file is renamed to a backup when it is not JSON or holds {}.
_validate_legacy_state(files) ==
    IF files[LegacyFile].status = "invalid"
    THEN [files |-> Rename(files, LegacyFile, CorruptedBackup), legacy_state |-> None]
    ELSE IF files[LegacyFile].data = << >>
    THEN [files |-> Rename(files, LegacyFile, EmptyBackup), legacy_state |-> None]
    ELSE [files |-> files, legacy_state |-> files[LegacyFile].data]

\* The fields of a legacy entry that go to the news file and to the forks
\* file; a field that is missing stays missing.
NewsData(repo_data) ==
    [EmptyRepoState EXCEPT !.last_check = repo_data.last_check,
                           !.last_commit = repo_data.last_commit,
                           !.last_release = repo_data.last_release,
                           !.branches = repo_data.branches,
                           !.last_branch_check = repo_data.last_branch_check]

ForksData(repo_data) ==
    [EmptyRepoState EXCEPT !.last_check = repo_data.last_check,
                           !.processed_forks = repo_data.processed_forks,
                           !.last_fork_check = repo_data.last_fork_check]

_split_legacy_state(legacy_state) ==
    [news_state |->
        [k \in {x \in DOMAIN legacy_state : NewsData(legacy_state[x]) # EmptyRepoState}
            |-> NewsData(legacy_state[k])],
     forks_state |->
        [k \in {x \in DOMAIN legacy_state : ForksData(legacy_state[x]) # EmptyRepoState}
            |-> ForksData(legacy_state[k])]]

\* create_temp_repository(url): the repository of a run given by URL
create_temp_repository(url) ==
    LET m == extract_owner_repo(url)
    IN  [name |-> IF m.error = "none" THEN m.repo_name ELSE Last(url.path), url |-> url]

\* RepositoryProcessorMixin.extract_repo_info
Mixin_extract_repo_info(url) ==
    LET m == extract_owner_repo(url)
    IN  [owner |-> m.owner, repo_name |-> m.repo_name,
         repo_key |-> Lower(m.owner) \o "/" \o Lower(m.repo_name)]

\* list_command: repo_key = f"{owner}/{repo_name}"
list_command_repo_key(url) ==
    LET m == extract_owner_repo(url)
    IN  m.owner \o "/" \o m.repo_name

\* NewsProcessor._process_repository for a repository with h commits; h = 0:
\* get_current_main_sha returns None, the error is displayed when the debug
\* setting is on, and the method returns.
NewsProcessor_run(state, repo, h, debug) ==
    LET info == extract_repo_info(repo.url)
    IN  IF h = 0
        THEN [state |-> state, warnings |-> IF debug THEN {repo.name} ELSE {},
              lookups |-> {}]
        ELSE [state |-> NewsProcessor_process_repository(state, info.repo_key,
                                                         ParUp(h), 0).state,
              warnings |-> {}, lookups |-> {info.repo_key}]

\* ForksProcessor._process_repository; h = 0: get_default_branch falls back
\* to 'main', get_readme returns None, get_forks returns [] and the method
\* displays the forks summary (0 of 0) and returns.
ForksProcessor_run(state, repo, h, debug) ==
    LET info == Mixin_extract_repo_info(repo.url)
    IN  IF h = 0
        THEN [state |-> state, warnings |-> {}, lookups |-> {}]
        ELSE [state |-> ForksProcessor_process_repository(state, info.repo_key,
                                                          StoreForks(h), 0).state,
              warnings |-> {}, lookups |-> {info.repo_key}]

\* if key == repo_name or key.split('/')[-1] == repo_name
ClearMatches(key, repo_name) == key = repo_name \/ SplitLast(key) = repo_name

\* clear_state(repo_name) on one file: the first matching key in the order
\* of the file's object is removed and the file rewritten; that order is
\* the insertion order of past runs, of which the model keeps nothing, so
\* any matching key may be the first. A file that is missing or not JSON is
\* left alone.
ClearChoices(file, repo_name) ==
    IF file.status = "valid" /\ \E k \in DOMAIN file.data : ClearMatches(k, repo_name)
    THEN {json_dump([x \in DOMAIN file.data \ {k} |-> file.data[x]]) :
            k \in {y \in DOMAIN file.data : ClearMatches(y, repo_name)}}
    ELSE {file}

\* An entry of the combined legacy file: what a news run and a forks run
\* record for a repository with one commit and one fork one commit ahead.
LegacyEntry(k) ==
    LET n == NewsProcessor_process_repository(<< >>, k, ParUp(1), 0).state[k]
        f == ForksProcessor_process_repository(<< >>, k, StoreForks(1), 0).state[k]
    IN  [n EXCEPT !.processed_forks = f.processed_forks,
                  !.last_fork_check = f.last_fork_check]

LegacyFiles ==
    {AbsentFile, OpenForWrite, json_dump(<< >>),
     json_dump([k \in StoreKeys |-> LegacyEntry(k)])}

InitStore ==
    /\ FilterIdle
    /\ NewsIdle
    /\ ForksIdle
    /\ ParIdle
    /\ DecideIdle
    /\ CallIdle
    /\ DispIdle
    /\ sFiles \in {[[f \in StorePaths |-> AbsentFile] EXCEPT ![LegacyFile] = l] :
                      l \in LegacyFiles}
    /\ sRemote \in 0..MaxHead
    /\ sRun = IdleRun

StoreFrame == UNCHANGED <<filterVars, newsVars, forksVars, parVars, decideVars, callVars, dispVars>>

Finished == {"idle", "done", "error", "crashed"}

\* The state file of the command running.
StateFile == get_state_filename(state_type(sRun.kind))

\* __init__ up to the first write of the migration: load_state, and in it
\* migrate_legacy_state with _validate_legacy_state and _split_legacy_state.
StartRun(kind, url, debug) ==
    /\ sRun.pc \in Finished
    /\ LET state_file == get_state_filename(state_type(kind))
           base == [IdleRun EXCEPT !.kind = kind, !.repo = create_temp_repository(url),
                                   !.debug = debug, !.start = sFiles]
           loaded(l) == IF l.error # "none"
                        THEN [base EXCEPT !.pc = "error", !.error = l.error]
                        ELSE [base EXCEPT !.pc = "execute", !.state = l.state,
                                          !.loaded = l.state]
       IN  IF sFiles[state_file].status # "absent"
           THEN /\ sRun' = loaded(load_state(sFiles[state_file]))
                /\ UNCHANGED sFiles
           ELSE IF sFiles[LegacyFile].status = "absent"
           THEN /\ sRun' = loaded(load_state(AbsentFile))
                /\ UNCHANGED sFiles
           ELSE LET v == _validate_legacy_state(sFiles)
                IN  IF v.legacy_state = None
                    THEN /\ sFiles' = v.files
                         /\ sRun' = loaded(load_state(AbsentFile))
                    ELSE /\ sRun' = [base EXCEPT
                                       !.pc = "write_news_temp",
                                       !.news_state = _split_legacy_state(v.legacy_state).news_state,
                                       !.forks_state = _split_legacy_state(v.legacy_state).forks_state]
                         /\ UNCHANGED sFiles
    /\ UNCHANGED sRemote
    /\ StoreFrame

\* _create_atomic_migration, step 1: the temporary files are written.
WriteNewsTemp ==
    /\ sRun.pc = "write_news_temp"
    /\ sFiles' = IF sRun.news_state # << >>
                 THEN [sFiles EXCEPT ![NewsTemp] = json_dump(sRun.news_state)]
                 ELSE sFiles
    /\ sRun' = [sRun EXCEPT !.pc = "write_forks_temp"]
    /\ UNCHANGED sRemote
    /\ StoreFrame

\* The second temporary file; step 2, _validate_migration_files, reads both
\* back and finds what was written.
WriteForksTemp ==
    /\ sRun.pc = "write_forks_temp"
    /\ sFiles' = IF sRun.forks_state # << >>
                 THEN [sFiles EXCEPT ![ForksTemp] = json_dump(sRun.forks_state)]
                 ELSE sFiles
    /\ sRun' = [sRun EXCEPT !.pc = "rename_news"]
    /\ UNCHANGED sRemote
    /\ StoreFrame

\* Step 3: os.rename(news_temp, "news_state.json")
RenameNews ==
    /\ sRun.pc = "rename_news"
    /\ sFiles' = IF sRun.news_state # << >>
                 THEN Rename(sFiles, NewsTemp, NewsFile)
                 ELSE sFiles
    /\ sRun' = [sRun EXCEPT !.pc = "rename_forks"]
    /\ UNCHANGED sRemote
    /\ StoreFrame

\* Step 3: os.rename(forks_temp, "forks_state.json")
RenameForks ==
    /\ sRun.pc = "rename_forks"
    /\ sFiles' = IF sRun.forks_state # << >>
                 THEN Rename(sFiles, ForksTemp, ForksFile)
                 ELSE sFiles
    /\ sRun' = [sRun EXCEPT !.pc = "archive"]
    /\ UNCHANGED sRemote
    /\ StoreFrame

\* Step 4: the legacy file is renamed to its backup; load_state then reads
\* the state file again.
ArchiveLegacy ==
    /\ sRun.pc = "archive"
    /\ sFiles' = Rename(sFiles, LegacyFile, MigratedBackup)
    /\ \E l \in {load_state(sFiles'[StateFile])} :
          sRun' = IF l.error # "none"
                  THEN [sRun EXCEPT !.pc = "error", !.error = l.error]
                  ELSE [sRun EXCEPT !.pc = "execute", !.state = l.state,
                                    !.loaded = l.state]
    /\ UNCHANGED sRemote
    /\ StoreFrame

\* The steps of _create_atomic_migration that can raise where the run is,
\* each with the temporary files named in temp_files at that point.
MigrationSteps ==
    LET news_temp == IF sRun.news_state # << >> THEN {NewsTemp} ELSE {}
        forks_temp == IF sRun.forks_state # << >> THEN {ForksTemp} ELSE {}
    IN  IF sRun.pc = "write_news_temp" /\ sRun.news_state # << >>
        THEN {[step |-> "write_news_temp", writes |-> {NewsTemp}, temp_files |-> {}]}
        ELSE IF sRun.pc = "write_forks_temp" /\ sRun.forks_state # << >>
        THEN {[step |-> "write_forks_temp", writes |-> {ForksTemp}, temp_files |-> news_temp]}
        ELSE IF sRun.pc = "rename_news"
        THEN {[step |-> "validate", writes |-> {}, temp_files |-> news_temp \cup forks_temp]}
             \cup (IF sRun.news_state # << >>
                   THEN {[step |-> "rename_news", writes |-> {},
                          temp_files |-> news_temp \cup forks_temp]}
                   ELSE {})
        ELSE IF sRun.pc = "rename_forks" /\ sRun.forks_state # << >>
        THEN {[step |-> "rename_forks", writes |-> {}, temp_files |-> forks_temp]}
        ELSE IF sRun.pc = "archive"
        THEN {[step |-> "archive", writes |-> {}, temp_files |-> {}]}
        ELSE {}

\* _rollback_migration: os.remove of every file named in temp_files.
_rollback_migration(files, temp_files) ==
    [f \in DOMAIN files |-> IF f \in temp_files THEN AbsentFile ELSE files[f]]

\* A step of _create_atomic_migration raises: a failed write either never
\* opened the file or leaves it opened and cut short, and its name is not
\* yet in temp_files; the except branch rolls back and raises again,
\* migrate_legacy_state prints the warning and load_state goes on to read
\* the state file.
MigrationStepFails ==
    /\ \E m \in MigrationSteps :
        \E opened \in SUBSET m.writes :
          /\ sFiles' = _rollback_migration(
                           [f \in DOMAIN sFiles |->
                               IF f \in opened THEN OpenForWrite ELSE sFiles[f]],
                           m.temp_files)
          /\ \E l \in {load_state(sFiles'[StateFile])} :
                sRun' = IF l.error # "none"
                        THEN [sRun EXCEPT !.pc = "error", !.error = l.error,
                                          !.failed_step = m.step]
                        ELSE [sRun EXCEPT !.pc = "execute", !.state = l.state,
                                          !.loaded = l.state, !.failed_step = m.step]
    /\ UNCHANGED sRemote
    /\ StoreFrame

\* execute: the task of the one repository, _process_repository.
ProcessRepository ==
    /\ sRun.pc = "execute"
    /\ sRun.kind \in {"news", "forks"}
    /\ \E r \in {IF sRun.kind = "news"
                 THEN NewsProcessor_run(sRun.state, sRun.repo, sRemote, sRun.debug)
                 ELSE ForksProcessor_run(sRun.state, sRun.repo, sRemote, sRun.debug)} :
          sRun' = [sRun EXCEPT !.pc = "to_save", !.state = r.state,
                               !.processed = TRUE, !.warnings = r.warnings,
                               !.lookups = r.lookups]
    /\ UNCHANGED <<sFiles, sRemote>>
    /\ StoreFrame

\* list_command: state.get(repo_key, {}) for the configured repository.
ListRepository ==
    /\ sRun.pc = "execute"
    /\ sRun.kind = "list"
    /\ sRun' = [sRun EXCEPT !.pc = "done",
                            !.lookups = {list_command_repo_key(sRun.repo.url)}]
    /\ UNCHANGED <<sFiles, sRemote>>
    /\ StoreFrame

\* save_state: open(state_file, 'w'), in _save_repository_state and then in
\* _save_state_if_enabled.
SaveOpen ==
    /\ sRun.pc = "to_save"
    /\ sFiles' = [sFiles EXCEPT ![StateFile] = OpenForWrite]
    /\ sRun' = [sRun EXCEPT !.pc = "opened"]
    /\ UNCHANGED sRemote
    /\ StoreFrame

\* save_state: json.dump
SaveDump ==
    /\ sRun.pc = "opened"
    /\ sFiles' = [sFiles EXCEPT ![StateFile] = json_dump(sRun.state)]
    /\ sRun' = [sRun EXCEPT !.pc = IF sRun.saves + 1 = 2 THEN "done" ELSE "to_save",
                            !.saves = @ + 1]
    /\ UNCHANGED sRemote
    /\ StoreFrame

\* The process is killed; what it held in memory is gone.
StoreCrash ==
    /\ sRun.pc \notin Finished
    /\ sRun' = [IdleRun EXCEPT !.pc = "crashed"]
    /\ UNCHANGED <<sFiles, sRemote>>
    /\ StoreFrame

\* clear_command: clear_state(repo_name) over the three state files.
ClearState(repo_name) ==
    /\ sRun.pc \in Finished
    /\ \E l \in ClearChoices(sFiles[LegacyFile], repo_name),
          n \in ClearChoices(sFiles[NewsFile], repo_name),
          f \in ClearChoices(sFiles[ForksFile], repo_name) :
          sFiles' = [sFiles EXCEPT ![LegacyFile] = l, ![NewsFile] = n, ![ForksFile] = f]
    /\ sRun' = [IdleRun EXCEPT !.pc = "done", !.kind = "clear", !.start = sFiles,
                               !.cleared = repo_name]
    /\ UNCHANGED sRemote
    /\ StoreFrame

\* clear_state(None): the three state files are removed.
ClearAllState ==
    /\ sRun.pc \in Finished
    /\ sFiles' = [sFiles EXCEPT ![LegacyFile] = AbsentFile, ![NewsFile] = AbsentFile,
                                ![ForksFile] = AbsentFile]
    /\ sRun' = [IdleRun EXCEPT !.pc = "done", !.kind = "clear_all", !.start = sFiles]
    /\ UNCHANGED sRemote
    /\ StoreFrame

ClearNames == StoreNames \cup {RepoKey}

NextStore ==
    \/ \E kind \in {"news", "forks", "list"}, url \in Urls, debug \in BOOLEAN :
          StartRun(kind, url, debug)
    \/ WriteNewsTemp
    \/ WriteForksTemp
    \/ RenameNews
    \/ RenameForks
    \/ ArchiveLegacy
    \/ ProcessRepository
    \/ ListRepository
    \/ SaveOpen
    \/ SaveDump
    \/ StoreCrash
    \/ \E repo_name \in ClearNames : ClearState(repo_name)
    \/ ClearAllState

SpecStore == InitStore /\ [][NextStore]_vars

\* News and forks runs only, each of which may be killed.
NextRuns ==
    \/ \E kind \in {"news", "forks"}, url \in Urls, debug \in BOOLEAN :
          StartRun(kind, url, debug)
    \/ WriteNewsTemp
    \/ WriteForksTemp
    \/ RenameNews
    \/ RenameForks
    \/ ArchiveLegacy
    \/ ProcessRepository
    \/ SaveOpen
    \/ SaveDump
    \/ StoreCrash

SpecRuns == InitStore /\ [][NextRuns]_vars

\* News and forks runs in which, besides, a step of the migration may fail.
NextMigration ==
    \/ NextRuns
    \/ MigrationStepFails

SpecMigration == InitStore /\ [][NextMigration]_vars

\* The steps the rollback is for: the two writes, the validation and the
\* two renames into place.
RolledBackSteps ==
    {"write_news_temp", "write_forks_temp", "validate", "rename_news", "rename_forks"}

\* C37: when one of these steps of the migration has failed, the run goes on
\* to execute with the empty state, no temporary file exists, the legacy
\* file is as it was and the two state files are as they were when the run
\* started.
MigrationRollback ==
    (sRun.failed_step \in RolledBackSteps /\ sRun.pc \in {"execute", "error"}) =>
        /\ sRun.pc = "execute"
        /\ sRun.state = << >>
        /\ sFiles[NewsTemp] = AbsentFile
        /\ sFiles[ForksTemp] = AbsentFile
        /\ sFiles[LegacyFile] = sRun.start[LegacyFile]
        /\ sFiles[NewsFile] = sRun.start[NewsFile]
        /\ sFiles[ForksFile] = sRun.start[ForksFile]

\* The per-concern files and the files clear_state goes through.
ConcernFiles == {NewsFile, ForksFile}
ClearedFiles == {LegacyFile, NewsFile, ForksFile}

\* C21: a run that finds its state file present and not JSON stops in
\* load_state with the error, processes no repository and leaves the file as
\* it found it.
MalformedStateStopsRun ==
    (sRun.kind \in {"news", "forks"} /\ sRun.start[StateFile].status = "invalid")
        => /\ sRun.pc = "error"
           /\ sRun.error = "ValueError"
           /\ ~sRun.processed
           /\ sRun.saves = 0
           /\ sFiles[StateFile] = sRun.start[StateFile]

\* A run was started over a state file that a killed save left truncated.
MalformedStateWitness ==
    /\ sRun.kind \in {"news", "forks"}
    /\ sRun.pc = "error"
    /\ sRun.start[StateFile] = OpenForWrite
    /\ sFiles[StateFile] = OpenForWrite

\* C22: the renames of the migration never replace a per-concern state
\* file that exists and holds a recorded state, whatever runs and kills
\* came before.
MigrationNeverOverwrites ==
    [][sRun.pc \in {"rename_news", "rename_forks"}
          => \A f \in ConcernFiles :
                sFiles[f].status = "valid" => sFiles'[f] = sFiles[f]]_vars

\* C26: a news run leaves the forks file it found as it is, and a forks run
\* the news file it found.
OtherConcern(kind) == IF kind = "news" THEN ForksFile ELSE NewsFile

StoreSeparation ==
    (sRun.kind \in {"news", "forks"}
        /\ sRun.start[OtherConcern(sRun.kind)].status # "absent")
        => sFiles[OtherConcern(sRun.kind)] = sRun.start[OtherConcern(sRun.kind)]

\* C24: after clear_state(repo_name) no file holds an entry that names the
\* repository, and every other entry of every file is as before.
ClearRemovesRepository ==
    sRun.kind = "clear"
        => \A f \in ClearedFiles :
              sRun.start[f].status = "valid"
                  => /\ sFiles[f].status = "valid"
                     /\ \A k \in DOMAIN sFiles[f].data : ~ClearMatches(k, sRun.cleared)
                     /\ \A k \in DOMAIN sRun.start[f].data :
                           ~ClearMatches(k, sRun.cleared)
                               => /\ k \in DOMAIN sFiles[f].data
                                  /\ sFiles[f].data[k] = sRun.start[f].data[k]

\* C25: the keys of the state in memory and of the per-concern files are
\* lowercase "owner/name" keys, and a command looks a repository up under
\* the lowercase key of its URL.
LowercaseKeys ==
    /\ DOMAIN sRun.state \subseteq StoreKeys
    /\ \A f \in ConcernFiles :
          sFiles[f].status = "valid" => DOMAIN sFiles[f].data \subseteq StoreKeys
    /\ \A k \in sRun.lookups : k = extract_repo_info(sRun.repo.url).repo_key

\* C23: a run over a repository that is not found leaves the repository's
\* state as loaded and shows a warning that names the repository.
InaccessibleSkippedWithWarning ==
    (sRun.kind \in {"news", "forks"} /\ sRun.processed /\ sRemote = 0)
        => /\ sRun.state = sRun.loaded
           /\ sRun.repo.name \in sRun.warnings

----------------------------------------------------------------------------
(* Harness for ForksProcessor._prioritize_branches: every listing of        *)
(* distinct branch names within the bounds, in every order, every default  *)
(* branch name and every limit, then one call.                             *)

PriorityNames == 3      \* branch names 0..PriorityNames-1
PriorityLimit == 3      \* max_branches_per_fork is 1..PriorityLimit

CallFrame == UNCHANGED <<filterVars, newsVars, forksVars, parVars, decideVars, storeVars, dispVars>>

\* The listings of a fork: the API names no branch twice.
PriorityListings ==
    {l \in SeqsUpTo(0..(PriorityNames - 1), PriorityNames) :
        \A i, j \in 1..Len(l) : i # j => l[i] # l[j]}

InitPrioritize ==
    /\ FilterIdle
    /\ NewsIdle
    /\ ForksIdle
    /\ ParIdle
    /\ DecideIdle
    /\ StoreIdle
    /\ DispIdle
    /\ cArgs \in {[branches |-> [i \in 1..Len(l) |-> [name |-> l[i]]],
                   default_branch |-> d, max_branches |-> k] :
                     l \in PriorityListings, d \in 0..(PriorityNames - 1),
                     k \in 1..PriorityLimit}
    /\ cRet = << >>
    /\ cpc = "call"

CallPrioritizeBranches ==
    /\ cpc = "call"
    /\ cRet' = _prioritize_branches(cArgs.branches, cArgs.default_branch,
                                    cArgs.max_branches)
    /\ cpc' = "ret"
    /\ UNCHANGED cArgs
    /\ CallFrame

NextPrioritize == CallPrioritizeBranches

SpecPrioritize == InitPrioritize /\ [][NextPrioritize]_vars

\* The names of a list of branches.
NamesOf(branches) == {branches[i].name : i \in 1..Len(branches)}

\* C36: the returned list holds branches of the listing, none twice, as many
\* as the listing has up to max_branches; the default branch is first when
\* the listing has it, the branches after it ascend by name, and a branch
\* left out by the limit is not the default branch and comes after every
\* other branch returned.
PriorityOrder ==
    cpc = "ret" =>
        LET has_default == cArgs.default_branch \in NamesOf(cArgs.branches)
            rest == IF has_default THEN 2 ELSE 1
        IN  /\ \A i \in 1..Len(cRet) : \E j \in 1..Len(cArgs.branches) :
                  cRet[i] = cArgs.branches[j]
            /\ \A i, j \in 1..Len(cRet) : i # j => cRet[i].name # cRet[j].name
            /\ Len(cRet) = Min({Len(cArgs.branches), cArgs.max_branches})
            /\ has_default => cRet[1].name = cArgs.default_branch
            /\ \A i \in rest..Len(cRet) : cRet[i].name # cArgs.default_branch
            /\ \A i, j \in rest..Len(cRet) : i < j => cRet[i].name < cRet[j].name
            /\ \A b \in NamesOf(cArgs.branches) \ NamesOf(cRet) :
                  /\ b # cArgs.default_branch
                  /\ \A i \in rest..Len(cRet) : cRet[i].name < b

\* A listing that is not in name order, with the default branch not first,
\* cut by the limit.
PriorityOrderWitness ==
    /\ cpc = "ret"
    /\ Len(cArgs.branches) = 3
    /\ cArgs.branches[1].name > cArgs.branches[2].name
    /\ cArgs.branches[3].name = cArgs.default_branch
    /\ Len(cRet) = 2
    /\ cRet[1].name = cArgs.default_branch

----------------------------------------------------------------------------
(* Harness for the comparison calls of github_fetcher.py: every answer of  *)
(* the gh command to the fork-parent lookup and to the compare request,    *)
(* then one call. An answer is                                             *)
(*   [kind |-> "ok", ...]        exit status 0 and the JSON asked for      *)
(*   [kind |-> "failed", stderr] a non-zero exit status                    *)
(*   [kind |-> "timeout"]        subprocess.TimeoutExpired                 *)

FetchAhead == 2      \* ahead_by of a compare answer is 0..FetchAhead
FetchBehind == 1     \* behind_by of a compare answer is 0..FetchBehind

NoCommonAncestor == "No common ancestor"
FailedPrefix == "GitHub CLI command failed: "
TimedOutMessage == "GitHub CLI command timed out"

\* _run_gh_command: the parsed output, or RuntimeError with its message
_run_gh_command(response) ==
    IF response.kind = "timeout"
    THEN [raised |-> "RuntimeError", message |-> TimedOutMessage, value |-> << >>]
    ELSE IF response.kind = "failed"
    THEN [raised |-> "RuntimeError", message |-> FailedPrefix \o response.stderr,
          value |-> << >>]
    ELSE [raised |-> "none", message |-> "", value |-> response]

\* "No common ancestor" in str(e), over the messages of _run_gh_command
MentionsNoCommonAncestor(message) == message = FailedPrefix \o NoCommonAncestor

\* get_fork_info: no handler around _run_gh_command
get_fork_info(response) ==
    LET result == _run_gh_command(response)
    IN  IF result.raised # "none"
        THEN [raised |-> result.raised, is_fork |-> FALSE]
        ELSE [raised |-> "none", is_fork |-> result.value.fork /\ result.value.parent]

\* get_branch_comparison; a result without the key is_orphan is read by the
\* callers with .get('is_orphan', False).
GitHubFetcher_get_branch_comparison(info_response, compare_response) ==
    LET info == get_fork_info(info_response)
        result == _run_gh_command(compare_response)
    IN  IF info.raised # "none"
        THEN [raised |-> info.raised, value |-> << >>]
        ELSE IF result.raised = "RuntimeError"
        THEN IF MentionsNoCommonAncestor(result.message)
             THEN [raised |-> "none",
                   value |-> [ahead_by |-> -1, behind_by |-> 0, is_orphan |-> TRUE,
                              commits |-> << >>,
                              cross_repository |-> info.is_fork]]
             ELSE [raised |-> "none",
                   value |-> [ahead_by |-> 0, behind_by |-> 0, is_orphan |-> FALSE,
                              commits |-> << >>,
                              cross_repository |-> info.is_fork]]
        ELSE [raised |-> "none",
              value |-> [ahead_by |-> result.value.ahead_by,
                         behind_by |-> result.value.behind_by, is_orphan |-> FALSE,
                         commits |-> << >>,
                         cross_repository |-> info.is_fork]]

\* compare_branch_with_parent: always the cross-repository request
GitHubFetcher_compare_branch_with_parent(compare_response) ==
    LET result == _run_gh_command(compare_response)
    IN  IF result.raised = "RuntimeError"
        THEN [raised |-> "none",
              value |-> [ahead_by |-> 0, behind_by |-> 0, is_orphan |-> FALSE,
                         commits |-> << >>, cross_repository |-> TRUE]]
        ELSE [raised |-> "none",
              value |-> [ahead_by |-> result.value.ahead_by,
                         behind_by |-> result.value.behind_by, is_orphan |-> FALSE,
                         commits |-> result.value.commits, cross_repository |-> TRUE]]

\* The answers to 'gh api repos/{owner}/{repo}' and to the compare request.
InfoResponses ==
    {[kind |-> "ok", fork |-> f, parent |-> f] : f \in BOOLEAN}
    \cup {[kind |-> "failed", stderr |-> e] : e \in {"Not Found", "API rate limit exceeded"}}
    \cup {[kind |-> "timeout"]}

CompareResponses ==
    {[kind |-> "ok", ahead_by |-> a, behind_by |-> b,
      commits |-> [i \in 1..a |-> [sha |-> <<i>>]]] :
        a \in 0..FetchAhead, b \in 0..FetchBehind}
    \cup {[kind |-> "failed", stderr |-> e] :
            e \in {NoCommonAncestor, "Not Found", "API rate limit exceeded"}}
    \cup {[kind |-> "timeout"]}

InitFetch ==
    /\ FilterIdle
    /\ NewsIdle
    /\ ForksIdle
    /\ ParIdle
    /\ DecideIdle
    /\ StoreIdle
    /\ DispIdle
    /\ cArgs \in {[fn |-> "get_branch_comparison", info |-> i, compare |-> c] :
                     i \in InfoResponses, c \in CompareResponses}
                 \cup {[fn |-> "compare_branch_with_parent", info |-> << >>, compare |-> c] :
                         c \in CompareResponses}
    /\ cRet = << >>
    /\ cpc = "call"

CallGetBranchComparison ==
    /\ cpc = "call"
    /\ cArgs.fn = "get_branch_comparison"
    /\ cRet' = GitHubFetcher_get_branch_comparison(cArgs.info, cArgs.compare)
    /\ cpc' = "ret"
    /\ UNCHANGED cArgs
    /\ CallFrame

CallCompareBranchWithParent ==
    /\ cpc = "call"
    /\ cArgs.fn = "compare_branch_with_parent"
    /\ cRet' = GitHubFetcher_compare_branch_with_parent(cArgs.compare)
    /\ cpc' = "ret"
    /\ UNCHANGED cArgs
    /\ CallFrame

NextFetch ==
    \/ CallGetBranchComparison
    \/ CallCompareBranchWithParent

SpecFetch == InitFetch /\ [][NextFetch]_vars

\* The request failed: it timed out, or gh ended with an error other than
\* the answer that the two branches have no common ancestor.
RemoteFailure(response) ==
    \/ response.kind = "timeout"
    \/ (response.kind = "failed" /\ response.stderr # NoCommonAncestor)

\* C31: a comparison call returns, it never raises; when the fork-parent
\* lookup or the compare request failed, it returns ahead_by = 0 and no
\* commits.
ComparisonFailuresAbsorbed ==
    cpc = "ret" =>
        /\ cRet.raised = "none"
        /\ (\/ RemoteFailure(cArgs.compare)
            \/ (cArgs.fn = "get_branch_comparison" /\ RemoteFailure(cArgs.info)))
              => (cRet.value.ahead_by = 0 /\ cRet.value.commits = << >>)

----------------------------------------------------------------------------
(* The batch with its display queue: execute, _display_worker and the      *)
(* _safe_display_* methods of ParallelBaseProcessor.                       *)

\* self._display_queue.put(None)
Sentinel == [repo |-> 0, kind |-> "None"]

\* A display item: the lambda one _safe_display_* call puts into the queue,
\* named by the repository it is about and the method it calls.
Item(t, kind) == [repo |-> Name(t), kind |-> kind]

\* What _process_repository and the except branch of
\* _process_repository_safe put into the queue for a first run over a
\* repository with commits: display_loading with debug set, then
\* display_news_summary, or the error when generate_summary raised.
ProcessItems(t, ok) ==
    (IF dDebug THEN <<Item(t, "display_loading")>> ELSE << >>)
        \o <<Item(t, IF ok THEN "display_news_summary" ELSE "error")>>

\* What _save_repository_state puts into the queue after save_state: the
\* warning when save_state raised, "State saved" with debug set.
SaveItems(th, dumped) ==
    IF ~dumped THEN <<Item(th, "error")>>
    ELSE IF dDebug THEN <<Item(th, "debug")>>
    ELSE << >>

InitExecute ==
    /\ InitBatch
    /\ dSent = << >>
    /\ dShown = << >>
    /\ dThread = "running"
    /\ dDebug \in BOOLEAN

ProcessShown(t) ==
    /\ ProcessState(t)
    /\ dSent' = dSent \o ProcessItems(t, pThreads'[t].ok)
    /\ UNCHANGED <<dShown, dThread, dDebug>>
    /\ BatchFrame

\* The final save of execute prints its messages itself.
DumpShown(th) ==
    /\ DumpState(th)
    /\ dSent' = IF th = MainThread THEN dSent
                ELSE dSent \o SaveItems(th, pThreads'[th].dumped)
    /\ UNCHANGED <<dShown, dThread, dDebug>>
    /\ BatchFrame

\* execute: as_completed has yielded every future and the executor is shut
\* down; self._display_queue.put(None).
PutSentinel ==
    /\ pThreads[MainThread].pc = "waiting"
    /\ \A t \in Tasks : Completed(pThreads[t].pc)
    /\ pThreads' = [pThreads EXCEPT ![MainThread].pc = "join"]
    /\ dSent' = Append(dSent, Sentinel)
    /\ UNCHANGED <<pCfg, pState, pRepoLocks, pStateLock, pDisk, pDirty, pOrder, pCrashed>>
    /\ UNCHANGED <<dShown, dThread, dDebug>>
    /\ BatchFrame

\* display_thread.join(timeout=10) returns: the thread has ended or ten
\* seconds have passed; the final save is next.
JoinDisplay ==
    /\ pThreads[MainThread].pc = "join"
    /\ pThreads' = [pThreads EXCEPT ![MainThread].pc = "to_save"]
    /\ UNCHANGED <<pCfg, pState, pRepoLocks, pStateLock, pDisk, pDirty, pOrder, pCrashed>>
    /\ UNCHANGED dispVars
    /\ BatchFrame

\* _display_worker, one turn of its loop: item = self._display_queue.get();
\* None ends the loop, any other item is executed.
DisplayWorker ==
    /\ dThread = "running"
    /\ Len(dShown) < Len(dSent)
    /\ LET item == dSent[Len(dShown) + 1]
       IN  IF item = Sentinel
           THEN /\ dThread' = "stopped"
                /\ UNCHANGED dShown
           ELSE /\ dShown' = Append(dShown, item)
                /\ UNCHANGED dThread
    /\ UNCHANGED <<dSent, dDebug>>
    /\ UNCHANGED parVars
    /\ BatchFrame

\* The steps of the task of repository t, of the thread that called execute
\* and of the display thread. No task hangs and the process is not killed.
TaskStep(t) ==
    \/ Start(t)
    \/ AcquireRepoLock(t)
    \/ ProcessShown(t)
    \/ BeginSave(t)
    \/ OpenStateFile(t)
    \/ DumpShown(t)
    \/ ReleaseRepoLock(t)

MainStep ==
    \/ PutSentinel
    \/ JoinDisplay
    \/ BeginSave(MainThread)
    \/ OpenStateFile(MainThread)
    \/ DumpShown(MainThread)
    \/ ShutdownJoined

NextExecute ==
    \/ \E t \in Tasks : TaskStep(t)
    \/ MainStep
    \/ Timeout
    \/ DisplayWorker

SpecExecute == InitExecute /\ [][NextExecute]_vars

\* Every thread that can take a step is scheduled in the end: the worker
\* threads of the pool, the thread that called execute, the display thread.
\* Whether the 180 seconds of as_completed run out is left open.
FairExecute ==
    /\ SpecExecute
    /\ \A t \in 1..NumEntries : WF_vars(t \in Tasks /\ TaskStep(t))
    /\ WF_vars(MainStep)
    /\ WF_vars(DisplayWorker)

\* C35: in what the display thread has output, no item of another
\* repository stands between two items of one repository.
DisplayContiguity ==
    \A i, j, k \in 1..Len(dShown) :
        (i < j /\ j < k /\ dShown[i].repo = dShown[k].repo)
            => dShown[j].repo = dShown[i].repo

\* execute has returned or has raised.
ExecuteEnded == pThreads[MainThread].pc \in {"returned", "raised"}

LocksFree == pStateLock = {} /\ \A n \in DOMAIN pRepoLocks : pRepoLocks[n] = {}

\* The display thread has ended and has executed, in the order they were
\* put into the queue, all the items the tasks put there.
DisplayDrained ==
    /\ dThread = "stopped"
    /\ dShown = SelectSeq(dSent, LAMBDA item : item # Sentinel)

InFinalSave == pThreads[MainThread].pc \in {"to_save", "save_state", "opened", "returned"}

\* C39: execute ends, in the end no lock is held, the display thread ends
\* having executed every item in the order of the queue, and the final
\* save does not begin before every task has finished.
ExecuteTerminates ==
    /\ <>ExecuteEnded
    /\ <>[]LocksFree
    /\ <>DisplayDrained
    /\ [](InFinalSave => \A t \in Tasks : Completed(pThreads[t].pc))

----------------------------------------------------------------------------
(* The state map and the threads that serialize it. *)

\* Some thread is inside json.dump(self.state, f): it has opened the state
\* file under the state lock and has not finished the dump.
Serializing == \E th \in DOMAIN pThreads : pThreads[th].pc = "opened"

\* C34: while a thread serializes the state map in save_state, no task
\* changes the map.
SnapshotIsolation == [][Serializing => pState' = pState]_vars

----------------------------------------------------------------------------
(* News runs in which one summary call fails. *)

\* What the state holds about the target of a summary: last_commit for the
\* default branch, the entry under branches for any other branch.
RecordedFor(state, target) ==
    LET rs == get_repository_state(state, RepoKey)
    IN  IF target = DefaultBranch THEN <<rs.last_commit>>
        ELSE IF target \in DOMAIN rs.branches THEN <<rs.branches[target]>>
        ELSE << >>

\* C33: in a news run in which one summary call fails, every other summary
\* of the run without the failure is made, and what was summarized is
\* recorded as in the run without the failure.
SummaryFailureContained ==
    [][(nUp' = nUp /\ nOut'.ran /\ nOut'.raised) =>
          \E clean \in {NewsProcessor_process_repository(nStore, RepoKey, nUp, 0)} :
            /\ \A i \in 1..Len(clean.summaries) :
                  i # Len(nOut'.summaries) + 1 =>
                      \E j \in 1..Len(nOut'.summaries) :
                          nOut'.summaries[j] = clean.summaries[i]
            /\ \A j \in 1..Len(nOut'.summaries) :
                  RecordedFor(nStore', nOut'.summaries[j].target)
                      = RecordedFor(clean.state, nOut'.summaries[j].target)]_vars

----------------------------------------------------------------------------
(* Forks runs in which one remote call or one summary call fails. *)

\* The forks as a run sees them in which the branch listing of the forks in
\* list_failed and the compare request of the <<fork, branch>> pairs in
\* compare_failed fail: get_fork_branches (_run_gh_command_multiline_json)
\* answers a failed request with [], compare_branch_with_parent with
\* ahead_by = 0 and no commits.
Answered(listed, list_failed, compare_failed) ==
    [f \in DOMAIN listed |->
        [default_branch |-> listed[f].default_branch,
         branches |->
            IF f \in list_failed THEN << >>
            ELSE [b \in DOMAIN listed[f].branches |->
                    IF <<f, b>> \in compare_failed
                    THEN [ahead |-> GitHubFetcher_compare_branch_with_parent(
                                        [kind |-> "timeout"]).value.commits,
                          n |-> listed[f].branches[b].n]
                    ELSE listed[f].branches[b]],
         updated_at |-> listed[f].updated_at]]

\* What may fail in the analysis of one fork of a run: nothing, the branch
\* listing of a fork, the comparison of one of its branches, or the summary
\* call number failAt.
ForkFailures(clean) ==
    {[list_failed |-> {}, compare_failed |-> {}, failAt |-> 0]}
    \cup {[list_failed |-> {f}, compare_failed |-> {}, failAt |-> 0] : f \in DOMAIN kUp}
    \cup {[list_failed |-> {}, compare_failed |-> {<<f, b>>}, failAt |-> 0] :
            f \in DOMAIN kUp, b \in 0..(NumForkBranches - 1)}
    \cup {[list_failed |-> {}, compare_failed |-> {}, failAt |-> i] :
            i \in 1..Len(clean.summaries)}

\* One batch over the parent in which at most one call of the analysis of
\* one fork fails. `clean` is the run without the failure.
ForksRunWithFailure(updated_at) ==
    \E clean \in {ForksProcessor_process_repository(kStore, RepoKey,
                                                    Listed(kUp, updated_at), 0)} :
      \E fail \in ForkFailures(clean) :
        /\ \A p \in fail.compare_failed : p[2] \in DOMAIN kUp[p[1]].branches
        /\ \E r \in {IF fail.list_failed = {} /\ fail.compare_failed = {} /\ fail.failAt = 0
                     THEN clean
                     ELSE ForksProcessor_process_repository(
                              kStore, RepoKey,
                              Answered(Listed(kUp, updated_at), fail.list_failed,
                                       fail.compare_failed),
                              fail.failAt)} :
            /\ kStore' = r.state
            /\ kPrev' = kStore
            /\ kOut' = [ran |-> TRUE, analyses |-> r.analyses, summaries |-> r.summaries,
                        failed |-> r.failed, recorded |-> r.recorded,
                        updated_at |-> updated_at,
                        list_failed |-> fail.list_failed,
                        compare_failed |-> fail.compare_failed,
                        clean |-> [state |-> clean.state, analyses |-> clean.analyses]]
            /\ kQuiet' = FALSE
            /\ kWasQuiet' = FALSE
            /\ UNCHANGED kUp
            /\ UNCHANGED <<filterVars, newsVars, parVars, decideVars, storeVars, callVars, dispVars>>

NextForksFail ==
    \/ \E f \in 1..NumForks, d \in {MainName, 1} : CreateFork(f, d)
    \/ \E f \in 1..NumForks, b \in 0..(NumForkBranches - 1) : CreateForkBranch(f, b)
    \/ \E f \in 1..NumForks, b \in 0..(NumForkBranches - 1) : PushFork(f, b)
    \/ \E updated_at \in UpdatedAts : ForksRunWithFailure(updated_at)

SpecForksFail == InitForks /\ [][NextForksFail]_vars

\* The stored entry of fork f, and of its branch b, as a list of at most one.
ForkEntryOf(state, f) ==
    IF f \in DOMAIN ProcessedForks(state) THEN <<ProcessedForks(state)[f]>> ELSE << >>

\* The forks in whose analysis a call failed in the last run.
FailedForks ==
    kOut.list_failed \cup {p[1] : p \in kOut.compare_failed}
        \cup {kOut.failed[i] : i \in 1..Len(kOut.failed)}

\* C32: after a run in which the branch listing, a branch comparison or the
\* summary of a fork failed, that fork's stored entry is what it was before
\* the run, the run analysed every fork the run without the failure
\* analyses, and every other fork is recorded as in the run without the
\* failure.
ForkFailureGranularity ==
    kOut.ran =>
        /\ \A f \in FailedForks : ForkEntryOf(kStore, f) = ForkEntryOf(kPrev, f)
        /\ Candidates = {kOut.clean.analyses[i].fork_name :
                            i \in 1..Len(kOut.clean.analyses)}
        /\ \A f \in DOMAIN kUp \ FailedForks :
              ForkEntryOf(kStore, f) = ForkEntryOf(kOut.clean.state, f)

----------------------------------------------------------------------------
(* Harness for the decision functions of state_manager.py: every stored    *)
(* entry, branch listing and candidate commit list within the bounds, then *)
(* one call.                                                               *)

DecideBranches == 2    \* branch names 1..DecideBranches
DecideShas == 2        \* distinct SHAs
DecideLen == 2         \* longest candidate commit list

DecideSha == {<<i>> : i \in 1..DecideShas}
DecideNames == 1..DecideBranches

\* An entry of the branches map as update_branch_state writes it.
DecideBranchEntry == [last_commit : DecideSha, commits_ahead : {1}, last_check : {Stamp}]

\* self.state: no entry for the repository, or an entry with the fields the
\* decision functions read.
DecideStates ==
    {<< >>} \cup
    {(RepoKey :> [EmptyRepoState EXCEPT !.last_check = Stamp,
                                        !.last_commit = lc,
                                        !.branches = bs]) :
        lc \in DecideSha \cup {None},
        bs \in UNION {[N -> DecideBranchEntry] : N \in SUBSET DecideNames}}

\* {b['name']: b['commit']['sha'] for b in current_branches}, in listing order.
DecideListings ==
    {[i \in 1..Cardinality(N) |-> [name |-> SortedSeq(N)[i], sha |-> f[SortedSeq(N)[i]]]] :
        N \in SUBSET DecideNames, f \in [DecideNames -> DecideSha]}

NoDecideArgs ==
    [fn |-> "none", current_main_sha |-> None, current_branch_shas |-> << >>,
     branch_name |-> 0, branch_commits |-> << >>, save_state_enabled |-> TRUE]

InitDecide ==
    /\ FilterIdle
    /\ NewsIdle
    /\ ForksIdle
    /\ ParIdle
    /\ StoreIdle
    /\ CallIdle
    /\ DispIdle
    /\ dState \in DecideStates
    /\ dBefore = dState
    /\ \/ \E sha \in DecideSha, listing \in DecideListings :
             dArgs = [NoDecideArgs EXCEPT !.fn = "needs_repository_processing",
                                          !.current_main_sha = sha,
                                          !.current_branch_shas = listing]
       \/ \E b \in DecideNames, cs \in SeqsUpTo([sha : DecideSha], DecideLen),
             enabled \in BOOLEAN :
             dArgs = [NoDecideArgs EXCEPT !.fn = "should_process_branch_by_state",
                                          !.branch_name = b,
                                          !.branch_commits = cs,
                                          !.save_state_enabled = enabled]
    /\ dRet = << >>
    /\ dpc = "call"

DecideFrame == UNCHANGED <<filterVars, newsVars, forksVars, parVars, storeVars, callVars, dispVars>>

CallNeedsRepositoryProcessing ==
    /\ dpc = "call"
    /\ dArgs.fn = "needs_repository_processing"
    /\ dRet' = needs_repository_processing(dState, RepoKey, dArgs.current_main_sha,
                                           dArgs.current_branch_shas)
    /\ dpc' = "ret"
    /\ UNCHANGED <<dState, dBefore, dArgs>>
    /\ DecideFrame

CallShouldProcessBranch ==
    /\ dpc = "call"
    /\ dArgs.fn = "should_process_branch_by_state"
    /\ dRet' = should_process_branch_by_state(dState, RepoKey, dArgs.branch_name,
                                              dArgs.branch_commits,
                                              dArgs.save_state_enabled)
    /\ dpc' = "ret"
    /\ UNCHANGED <<dState, dBefore, dArgs>>
    /\ DecideFrame

NextDecide ==
    \/ CallNeedsRepositoryProcessing
    \/ CallShouldProcessBranch

SpecDecide == InitDecide /\ [][NextDecide]_vars

\* The stored entry the call was handed, by field.
DecideStoredMain ==
    IF RepoKey \in DOMAIN dBefore THEN dBefore[RepoKey].last_commit ELSE None
DecideStoredBranches ==
    IF RepoKey \in DOMAIN dBefore THEN dBefore[RepoKey].branches ELSE << >>
SeqRange(s) == {s[i] : i \in 1..Len(s)}

\* C27: needs_repository_processing reports that no processing is needed
\* exactly when the main SHA equals the stored last_commit and every listed
\* branch has a stored entry with the listed SHA; new_branches is exactly the
\* listed branches without a stored entry, changed_branches exactly the listed
\* branches whose stored last_commit differs; the state is not modified.
NeedsProcessingCorrect ==
    (dpc = "ret" /\ dArgs.fn = "needs_repository_processing") =>
        LET listing == dArgs.current_branch_shas
            Listed_ == SeqRange(listing)
            New == {b.name : b \in {x \in Listed_ : x.name \notin DOMAIN DecideStoredBranches}}
            Changed == {b.name : b \in {x \in Listed_ :
                            /\ x.name \in DOMAIN DecideStoredBranches
                            /\ DecideStoredBranches[x.name].last_commit # x.sha}}
        IN  /\ ~dRet.needs_processing <=>
                  /\ dArgs.current_main_sha = DecideStoredMain
                  /\ \A b \in Listed_ :
                        /\ b.name \in DOMAIN DecideStoredBranches
                        /\ DecideStoredBranches[b.name].last_commit = b.sha
            /\ SeqRange(dRet.new_branches) = New
            /\ Len(dRet.new_branches) = Cardinality(New)
            /\ SeqRange(dRet.changed_branches) = Changed
            /\ Len(dRet.changed_branches) = Cardinality(Changed)
            /\ dState = dBefore

\* C27 witness: the main SHA is the stored one, one listed branch is new.
NeedsProcessingWitness ==
    /\ dpc = "ret"
    /\ dArgs.fn = "needs_repository_processing"
    /\ dArgs.current_main_sha = DecideStoredMain
    /\ dRet.needs_processing
    /\ Len(dRet.new_branches) = 1
    /\ dRet.changed_branches = << >>
    /\ Len(dArgs.current_branch_shas) = 2

\* The branch of the call has no stored entry.
DecideUnseen == dArgs.branch_name \notin DOMAIN DecideStoredBranches

\* The latest candidate commit differs from the stored last_commit.
DecideLatestDiffers ==
    /\ dArgs.branch_commits # << >>
    /\ ~DecideUnseen
    /\ Last(dArgs.branch_commits).sha # DecideStoredBranches[dArgs.branch_name].last_commit

\* C28 as stated: should_process_branch_by_state returns true if the branch
\* has no stored entry or the latest candidate commit differs from the stored
\* last_commit, for every candidate commit list; true unconditionally when
\* state tracking is disabled; the state is not modified.
ShouldProcessBranchAsStated ==
    (dpc = "ret" /\ dArgs.fn = "should_process_branch_by_state") =>
        /\ (DecideUnseen \/ DecideLatestDiffers) => dRet
        /\ ~dArgs.save_state_enabled => dRet
        /\ dState = dBefore

\* C28 amended: the same for every non-empty candidate commit list.
ShouldProcessBranchNonEmpty ==
    (dpc = "ret" /\ dArgs.fn = "should_process_branch_by_state") =>
        /\ (dArgs.branch_commits # << >> /\ (DecideUnseen \/ DecideLatestDiffers)) => dRet
        /\ ~dArgs.save_state_enabled => dRet
        /\ dState = dBefore

\* C28 witness: a stored branch, two candidates of which the oldest is the
\* stored commit and the latest is not.
ShouldProcessBranchWitness ==
    /\ dpc = "ret"
    /\ dArgs.fn = "should_process_branch_by_state"
    /\ dArgs.save_state_enabled
    /\ Len(dArgs.branch_commits) = 2
    /\ ~DecideUnseen
    /\ Head(dArgs.branch_commits).sha = DecideStoredBranches[dArgs.branch_name].last_commit
    /\ DecideLatestDiffers
    /\ dRet = TRUE

----------------------------------------------------------------------------
(* Harness for the pure commit filter: every commit list and every anchor  *)
(* within the bounds, then one call.                                       *)

MaxLen == 3          \* longest commit list handed to the filter
ShaLen == 2          \* digits of a SHA in the filter harness
Hex == 1..2          \* digit alphabet of the filter harness

FilterShas == [1..ShaLen -> Hex]
FilterCommit == [sha : FilterShas]

InitFilter ==
    /\ NewsIdle
    /\ ForksIdle
    /\ ParIdle
    /\ DecideIdle
    /\ StoreIdle
    /\ CallIdle
    /\ DispIdle
    /\ commits \in SeqsUpTo(FilterCommit, MaxLen)
    /\ last_processed_commit \in SeqsUpTo(Hex, ShaLen + 1)
    /\ filtered = << >>
    /\ fpc = "call"

CallFilter ==
    /\ fpc = "call"
    /\ filtered' = filter_commits_since_last_processed(commits, last_processed_commit)
    /\ fpc' = "ret"
    /\ UNCHANGED <<commits, last_processed_commit>>
    /\ UNCHANGED <<newsVars, forksVars, parVars, decideVars, storeVars, callVars, dispVars>>

NextFilter == CallFilter

SpecFilter == InitFilter /\ [][NextFilter]_vars

\* Indexes of the commits whose sha starts with the anchor.
Matches == {i \in 1..Len(commits) : StartsWith(commits[i].sha, last_processed_commit)}

\* C3: the filter returns the list unchanged when the anchor is null/empty,
\* the list is empty, or no sha starts with the anchor; otherwise exactly the
\* commits strictly after the first commit whose sha starts with the anchor.
FilterCorrect ==
    fpc = "ret" =>
        IF last_processed_commit = None \/ commits = << >> \/ Matches = {}
        THEN filtered = commits
        ELSE /\ Len(filtered) = Len(commits) - Min(Matches)
             /\ \A j \in 1..Len(filtered) : filtered[j] = commits[Min(Matches) + j]

\* C3 witness: an anchor that is a proper prefix of two commits of the list,
\* the first not at the head, and a non-empty strict suffix returned.
FilterCorrectWitness ==
    /\ fpc = "ret"
    /\ Cardinality(Matches) >= 2
    /\ Min(Matches) > 1
    /\ Len(last_processed_commit) < ShaLen
    /\ last_processed_commit # None
    /\ filtered # << >>
    /\ filtered # commits

====
